---- MODULE Spec2Model ----
(***************************************************************************)
(* Model of the gift-code redemption tool: the task generator, the         *)
(* selection of the failure file to replay, the per-task redemption        *)
(* workflow with its request-level and task-level retries, the schedulers  *)
(* (batched, sequential, resumption) and the failure store.                *)
(***************************************************************************)
EXTENDS Integers, Sequences, FiniteSets, TLC

VARIABLES
  \* task generator (processGiftCodes, first statement)
  cdks, fids, tasks, gpc,
  \* main(), --process-failed branch: choice of the file to replay
  dirOk, files, filePath, exitCode, mpc,
  \* main(): the verbosity in force, the lines of the final report printed
  devMode, report,
  \* a run: configuration, scheduler, the workflow of every task, the store
  mode, maxRetries, batchSize, spc, idx, results, stats, wf,
  store, today, replayDay, original,
  \* the configuration last loaded by the configuration manager
  conf,
  \* one call of a function on its own: its inputs, its outcome
  call, out, cpc

genVars == <<cdks, fids, tasks, gpc>>
mainVars == <<dirOk, files, filePath, exitCode, mpc, devMode, report>>
cfgVars == <<mode, maxRetries, batchSize, today, replayDay, original, conf>>
runVars == <<cfgVars, spc, idx, results, stats, wf, store>>
callVars == <<call, out, cpc>>
vars == <<genVars, mainVars, runVars, callVars>>

\* ------------------------------------------------------------------ bounds
MaxCdks == 3
MaxFids == 3
MaxDirEntries == 3
MaxTasks == 2
MaxFileTasks == 2
MaxRequestRetries == 2
MaxBatchSize == 2
MaxBatchTasks == 3
MaxFields == 3
MaxReloads == 1
Max429 == 2

\* ---------------------------------------------------------------- helpers
Range(s) == {s[i] : i \in 1..Len(s)}

SeqsUpTo(S, n) == UNION {[1..k -> S] : k \in 0..n}

RECURSIVE CountIn(_, _)
CountIn(s, x) ==
  IF s = <<>> THEN 0
  ELSE (IF Head(s) = x THEN 1 ELSE 0) + CountIn(Tail(s), x)

\* --------------------------------------------------------------- messages
\* A message is a sequence of text fragments; String.prototype.includes is
\* the search for a contiguous run of fragments. The program's Chinese
\* texts are written in pinyin, cut so that each marker the schedulers look
\* for is a fragment of its own: "yilingguo" (U+5DF2 U+9886 U+8FC7, already
\* claimed), "chaoshi" (U+8D85 U+65F6, timeout), "TIMEOUT".
Includes(msg, marker) ==
  \E i \in 1..(Len(msg) - Len(marker) + 1) :
    SubSeq(msg, i, i + Len(marker) - 1) = marker

\* `${n}` for the small numbers that occur
NumStr(n) ==
  CASE n = 0 -> "0" [] n = 1 -> "1" [] n = 2 -> "2" [] n = 3 -> "3"
    [] n = 4 -> "4" [] n = 5 -> "5" [] OTHER -> "many"

\* ---------------------------------------------- one network call: outcomes
\* What one attempt of instance.request can do: answer with an envelope
\* {code, msg, data, err_code}, or fail with an error.
Resp(code, err_code, msg, data) ==
  [k |-> "resp", code |-> code, err_code |-> err_code, msg |-> msg, data |-> data,
   isAxios |-> FALSE, isError |-> FALSE, ecode |-> "", message |-> <<>>]
Err(isAxios, isError, ecode, message) ==
  [k |-> "error", code |-> -1, err_code |-> -1, msg |-> <<>>, data |-> <<>>,
   isAxios |-> isAxios, isError |-> isError, ecode |-> ecode, message |-> message]

AxiosTimeout == Err(TRUE, TRUE, "ECONNABORTED", <<"timeout of 20000ms exceeded">>)
AxiosNetwork == Err(TRUE, TRUE, "ERR_NETWORK", <<"Network Error">>)
PlainError == Err(FALSE, TRUE, "", <<"socket hang up">>)
ThrownValue == Err(FALSE, FALSE, "", <<>>)
Errors == {AxiosTimeout, AxiosNetwork, PlainError, ThrownValue}
\* the errors that occur in the runs
RunErrors == {AxiosTimeout, AxiosNetwork}

\* the server's answers to /gift_code
GiftResponses ==
  { Resp(0, 20000, <<"SUCCESS">>, <<>>),
    Resp(0, 40008, <<"RECEIVED">>, <<>>),
    Resp(1, 40008, <<"RECEIVED">>, <<>>),
    Resp(1, 40004, <<"TIMEOUT", " RETRY">>, <<>>),
    Resp(1, 40007, <<"TIME ERROR">>, <<>>),
    Resp(1, 40101, <<"TIMEOUT">>, <<>>) }
\* the answers that occur in the runs
RunGiftResponses == {r \in GiftResponses : r.err_code # 40007}

\* the server's answers to /player
Nicknames == {<<"Alice">>}
PlayerInfos == {[kid |-> "245", nickname |-> n] : n \in Nicknames}
PlayerResponses ==
  {Resp(0, 0, <<"success">>, <<p>>) : p \in PlayerInfos}
  \cup {Resp(1, 40001, <<"role not exist">>, <<>>), Resp(0, 0, <<"success">>, <<>>)}

\* What the server does on the successive attempts of one requestWithRetry
\* call: one outcome per attempt; the outcomes after the first answer are
\* never looked at and repeat it.
Behaviours(responses, errors, n) ==
  {bs \in [1..n -> responses \cup errors] :
     \A i \in 1..n : \A j \in (i + 1)..n : bs[i].k = "resp" => bs[j] = bs[i]}

\* ------------------------------------------------------- requestWithRetry
BASE_DELAY == 1000

\* new Error(`...${maxAttempts}...`): "request still failing after N retries"
StillFailingError(maxAttempts) ==
  Err(FALSE, TRUE, "", <<"qingqiu chongshi", NumStr(maxAttempts), "ci hou rengran shibai">>)

Returned(resp, sent, waits) ==
  [kind |-> "return", value |-> resp, sent |-> sent, waits |-> waits]
Thrown(error, sent, waits) ==
  [kind |-> "throw", value |-> error, sent |-> sent, waits |-> waits]

\* the for loop of requestWithRetry from `attempt` on; waits are the sleeps
\* made so far
RECURSIVE RequestLoop(_, _, _, _)
RequestLoop(bs, maxAttempts, attempt, waits) ==
  IF attempt >= maxAttempts
  THEN Thrown(StillFailingError(maxAttempts), attempt, waits)
  ELSE LET b == bs[attempt + 1]
           delay == BASE_DELAY * (attempt + 1)
       IN IF b.k = "resp" THEN Returned(b, attempt + 1, waits)
          ELSE IF b.isAxios
          THEN IF b.ecode = "ECONNABORTED"
               THEN RequestLoop(bs, maxAttempts, attempt + 1, Append(waits, delay))
               ELSE IF attempt = maxAttempts - 1
               THEN Thrown(b, attempt + 1, waits)
               ELSE RequestLoop(bs, maxAttempts, attempt + 1, Append(waits, delay))
          ELSE Thrown(b, attempt + 1, waits)

requestWithRetry(bs, maxAttempts) == RequestLoop(bs, maxAttempts, 0, <<>>)

\* ----------------------------------------------------------- getPlayerInfo
\* <<info>> for a resolved account, <<>> for null
getPlayerInfo(bs, maxAttempts) ==
  LET r == requestWithRetry(bs, maxAttempts)
  IN IF r.kind = "return"
     THEN (IF r.value.code = 0 THEN r.value.data ELSE <<>>)
     ELSE <<>>

\* ---------------------------------------------------------- processGiftCode
AlreadyMsg == <<"yilingguo", "gai libao">>
ClaimedMsg == <<"yi chenggong lingqu">>
RetryFailedMsg == <<"chongshi hou rengran shibai">>
UnknownErrorMsg == <<"weizhi cuowu">>

ErrorMapHas(err_code) == err_code \in {40004, 40007, 40008}
errorMap(err_code) ==
  CASE err_code = 40004 -> <<"fuwuqi chuli", "chaoshi", ", qing shaohou chongshi">>
    [] err_code = 40007 -> <<"chaochu duihuan shijian, wufa lingqu">>
    [] err_code = 40008 -> <<"yilingguo", "gai libao, buneng chongfu lingqu">>

GiftCodeResult(success, message, cdk, fid) ==
  [success |-> success, message |-> message, cdk |-> cdk, fid |-> fid]

\* mutant: success decided by the code field alone
ResultOfResponseCodeOnly(resp, fid, cdk) ==
  IF resp.code = 0
  THEN GiftCodeResult(TRUE, IF resp.err_code = 40008 THEN AlreadyMsg ELSE ClaimedMsg,
                      cdk, fid)
  ELSE GiftCodeResult(FALSE,
                      IF ErrorMapHas(resp.err_code) THEN errorMap(resp.err_code)
                      ELSE resp.msg,
                      cdk, fid)

\* the result built from an answered redeem request
ResultOfResponse(resp, fid, cdk) ==
  IF resp.code = 0 \/ resp.err_code = 40008
  THEN GiftCodeResult(TRUE, IF resp.err_code = 40008 THEN AlreadyMsg ELSE ClaimedMsg,
                      cdk, fid)
  ELSE GiftCodeResult(FALSE,
                      IF ErrorMapHas(resp.err_code) THEN errorMap(resp.err_code)
                      ELSE resp.msg,
                      cdk, fid)

\* the test of the catch block: is the caught error a transport timeout
IsTimeoutError(error) == error.isAxios /\ error.ecode = "ECONNABORTED"

\* processGiftCode: bs1 is the server's behaviour on the first submit round,
\* bs2 its behaviour on the round made after a timeout. The outcome is the
\* result, the number of submit rounds (requestWithRetry calls) made and the
\* number of requests sent.
processGiftCode(fid, cdk, bs1, bs2, maxAttempts) ==
  LET r1 == requestWithRetry(bs1, maxAttempts)
  IN IF r1.kind = "return"
     THEN [result |-> ResultOfResponse(r1.value, fid, cdk), rounds |-> 1, sent |-> r1.sent]
     ELSE IF IsTimeoutError(r1.value)
     THEN LET r2 == requestWithRetry(bs2, maxAttempts)
          IN [result |-> IF r2.kind = "return"
                         THEN ResultOfResponse(r2.value, fid, cdk)
                         ELSE GiftCodeResult(FALSE, RetryFailedMsg, cdk, fid),
              rounds |-> 2, sent |-> r1.sent + r2.sent]
     ELSE [result |-> GiftCodeResult(FALSE,
                        IF r1.value.isError THEN r1.value.message ELSE UnknownErrorMsg,
                        cdk, fid),
           rounds |-> 1, sent |-> r1.sent]

\* ------------------------------------------------------ the failure store
\* One file per calendar day: missing, unparsable, or a list of tasks.
Days == {1, 2}
MissingFile == [st |-> "missing", tasks |-> <<>>]
CorruptFile == [st |-> "corrupt", tasks |-> <<>>]
OkFile(ts) == [st |-> "ok", tasks |-> ts]

\* the list an append starts from: a missing or corrupt file counts as empty
ExistingTasks(file) == IF file.st = "ok" THEN file.tasks ELSE <<>>

\* mutant: an append that skips a task the list already holds
AppendedDedup(existing, task) ==
  IF task \in Range(existing) THEN existing ELSE Append(existing, task)

\* mutant: the task written twice
AppendedTwice(existing, task) == existing \o <<task, task>>

\* append(task): the list written back
Appended(existing, task) == Append(existing, task)

SameTask(a, b) == a.fid = b.fid /\ a.cdk = b.cdk

\* mutant: a removal that matches on the account alone
removeByAccount(file, task) ==
  IF file.st # "ok" THEN file
  ELSE LET kept == SelectSeq(file.tasks, LAMBDA t : t.fid # task.fid)
       IN IF kept = <<>> THEN MissingFile ELSE OkFile(kept)

\* mutant: a removal that rewrites an empty list instead of deleting the file
removeKeepsFile(file, task) ==
  IF file.st # "ok" THEN file
  ELSE OkFile(SelectSeq(file.tasks, LAMBDA t : ~SameTask(t, task)))

\* remove(file, task): the file afterwards
removeSuccessfulTask(file, task) ==
  IF file.st # "ok" THEN file
  ELSE LET kept == SelectSeq(file.tasks, LAMBDA t : ~SameTask(t, task))
       IN IF kept = <<>> THEN MissingFile ELSE OkFile(kept)

\* --------------------------------------------------- the redemption workflow
TaskMaxRetries == 3

\* captcha texts are sequences of code points
CaptchaTexts ==
  { <<97, 98, 99, 100>>,          \* "abcd"
    <<97, 98, 99>>,               \* "abc"
    <<97, 98, 99, 100, 101>>,     \* "abcde"
    <<97, 20013, 99, 100>> }      \* "a" U+4E2D "cd"
IsCJK(c) == c >= 19968 /\ c <= 40869      \* U+4E00 .. U+9FA5

\* mutant: a validation that checks the length only
ValidCaptchaLengthOnly(text) == Len(text) = 4

\* captcha format validation: exactly 4 characters, none of them CJK
ValidCaptcha(text) == Len(text) = 4 /\ \A i \in 1..Len(text) : ~IsCJK(text[i])

CaptchaResponses ==
  {Resp(0, 0, <<"success">>, <<"img">>), Resp(1, 40100, <<"captcha error">>, <<>>)}

NoResult == GiftCodeResult(FALSE, <<>>, "", "")
NoAnswer == [code |-> -1, err_code |-> -1]
NoInfo == [kid |-> "", nickname |-> <<>>]
IdleWf ==
  [pc |-> "idle", retry |-> 0, info |-> NoInfo, captcha |-> <<>>, result |-> NoResult,
   buf |-> <<>>, fetches |-> 0, submitted |-> <<>>, saves |-> 0,
   answer |-> NoAnswer, used |-> {}, redeems |-> 0, order |-> 0]

PlayerInfoFailedMsg == <<"wufa huoqu wanjia xinxi">>
CaptchaFailedMsg == <<"yanzhengma shibie shibai">>
ExhaustedSuffix == <<" (yi dadao zuida chongshi cishu)">>

\* `[${kid}] - [${nickname}] ... ${cdk} ...: ${result.message}`
LabelledMessage(info, cdk, success, message) ==
  <<"[", info.kid, "] - [">> \o info.nickname \o <<"] lingqu ", cdk>>
  \o (IF success THEN <<" chenggong: ">> ELSE <<" shibai: ">>) \o message

\* mutant: a workflow that goes on to the captcha without the account
AccountMissingNever(playerInfo) == FALSE

\* if (!playerInfo)
AccountMissing(playerInfo) == playerInfo = <<>>

\* mutant: one retry too many
MayRetryOffByOne(retry) == retry <= TaskMaxRetries

\* may the captcha/submit loop be run once more
MayRetry(retry) == retry < TaskMaxRetries

\* the message of a caught exception
CaughtMessage(error) == IF error.isError THEN error.message ELSE UnknownErrorMsg

NoOutcome == [result |-> NoResult, rounds |-> 0, sent |-> 0]
CallIdle == call = [bs1 |-> <<>>, bs2 |-> <<>>, maxAttempts |-> 0] /\ out = NoOutcome /\ cpc = "idle"

\* ConfigSchema: the loaded configuration (the task lists apart), with the
\* number of reloads so far and the loop position of the last reload
LoadedConfig(n, size) ==
  [maxRetries |-> n, batchSize |-> size, batchDelay |-> 3000, timeout |-> 20000,
   apiBaseUrl |-> "url1", signSalt |-> "salt1", reloads |-> 0, atIdx |-> 0]

\* the configuration a changed .env file gives: every parameter another
ReloadedConfig(c, at) ==
  [maxRetries |-> IF c.maxRetries = 1 THEN 2 ELSE 1,
   batchSize |-> IF c.batchSize = 1 THEN 2 ELSE 1,
   batchDelay |-> IF c.batchDelay = 3000 THEN 1000 ELSE 3000,
   timeout |-> IF c.timeout = 20000 THEN 5000 ELSE 20000,
   apiBaseUrl |-> IF c.apiBaseUrl = "url1" THEN "url2" ELSE "url1",
   signSalt |-> IF c.signSalt = "salt1" THEN "salt2" ELSE "salt1",
   reloads |-> c.reloads + 1, atIdx |-> at]

\* the parameters a request of the ApiService is made with
ApiParams ==
  [signSalt |-> conf.signSalt, timeout |-> conf.timeout, apiBaseUrl |-> conf.apiBaseUrl,
   maxRetries |-> maxRetries]

RunIdle ==
  /\ conf = LoadedConfig(0, 1)
  /\ mode = "none" /\ maxRetries = 0 /\ batchSize = 1 /\ spc = "idle" /\ idx = 1
  /\ results = <<>> /\ stats = [success |-> 0, failure |-> 0, timeout |-> 0, alreadyClaimed |-> 0]
  /\ wf = <<>> /\ store = [d \in Days |-> MissingFile]
  /\ today = 2 /\ replayDay = 0 /\ original = <<>>

\* ------------------------------------------------------- the task generator
CdkSet == {"c1", "c2"}
FidSet == {"f1", "f2"}

\* cdks.map(cdk => ({ fid, cdk }))
MapCdks(fid, cs) == [j \in 1..Len(cs) |-> [fid |-> fid, cdk |-> cs[j]]]

\* mutant: the two loops swapped (code-major order)
RECURSIVE GenerateTasksCodeMajor(_, _)
GenerateTasksCodeMajor(cs, fs) ==
  IF cs = <<>> THEN <<>>
  ELSE [i \in 1..Len(fs) |-> [fid |-> fs[i], cdk |-> Head(cs)]]
       \o GenerateTasksCodeMajor(Tail(cs), fs)

\* mutant: repeated accounts are skipped (a de-duplicating generator)
RECURSIVE GenerateTasksDedup(_, _)
GenerateTasksDedup(cs, fs) ==
  IF fs = <<>> THEN <<>>
  ELSE (IF Head(fs) \in Range(Tail(fs)) THEN <<>> ELSE MapCdks(Head(fs), cs))
       \o GenerateTasksDedup(cs, Tail(fs))

\* fids.flatMap(fid => cdks.map(cdk => ({ fid, cdk })))
RECURSIVE GenerateTasks(_, _)
GenerateTasks(cs, fs) ==
  IF fs = <<>> THEN <<>>
  ELSE MapCdks(Head(fs), cs) \o GenerateTasks(cs, Tail(fs))

MainIdle ==
  /\ dirOk = TRUE /\ files = <<>> /\ filePath = <<>> /\ exitCode = -1 /\ mpc = "idle"
  /\ devMode = FALSE /\ report = <<>>

GenInit ==
  /\ cdks \in SeqsUpTo(CdkSet, MaxCdks)
  /\ fids \in SeqsUpTo(FidSet, MaxFids)
  /\ tasks = <<>>
  /\ gpc = "start"
  /\ MainIdle
  /\ RunIdle
  /\ CallIdle

Generate ==
  /\ gpc = "start"
  /\ tasks' = GenerateTasks(cdks, fids)
  /\ gpc' = "done"
  /\ UNCHANGED <<cdks, fids, mainVars, runVars, callVars>>

GenNext == Generate

SpecGen == GenInit /\ [][GenNext]_vars

\* C1: the generator yields exactly |C| x |A| tasks and every pair of a
\* position of A and a position of C occurs exactly once among them: the
\* number of tasks equal to (a, c) is (occurrences of a in A) times
\* (occurrences of c in C), so exactly one when the lists have no repeats.
C1_PairsOnce ==
  gpc = "done" =>
    /\ Len(tasks) = Len(cdks) * Len(fids)
    /\ \A a \in FidSet, c \in CdkSet :
         CountIn(tasks, [fid |-> a, cdk |-> c])
           = CountIn(fids, a) * CountIn(cdks, c)

C1_Witness ==
  /\ gpc = "done"
  /\ Len(cdks) = 2 /\ Len(fids) = 2
  /\ cdks[1] # cdks[2] /\ fids[1] = fids[2]

\* C2: the task sequence is in account-major order: the task at position
\* i*|C| + j is (A[i], C[j]), nothing filtered, nothing reordered.
C2_AccountMajor ==
  gpc = "done" =>
    /\ Len(tasks) = Len(cdks) * Len(fids)
    /\ \A i \in 1..Len(fids), j \in 1..Len(cdks) :
         tasks[(i - 1) * Len(cdks) + j] = [fid |-> fids[i], cdk |-> cdks[j]]

C2_Witness ==
  /\ gpc = "done"
  /\ Len(cdks) = 2 /\ Len(fids) = 2
  /\ cdks[1] # cdks[2] /\ fids[1] # fids[2]
  /\ tasks[2] = [fid |-> fids[1], cdk |-> cdks[2]]
  /\ tasks[3] = [fid |-> fids[2], cdk |-> cdks[1]]

\* ------------------------------------------- main(): the file to replay
\* File names are sequences of UTF-16 code units, as String.prototype
\* comparisons see them.
FailedPrefix == <<102, 97, 105, 108, 101, 100, 95, 116, 97, 115, 107, 115, 95>>  \* "failed_tasks_"
JsonExt == <<46, 106, 115, 111, 110>>                                           \* ".json"
IsoDates == { <<50, 48, 50, 52, 45, 49, 50, 45, 51, 49>>,    \* "2024-12-31"
              <<50, 48, 50, 53, 45, 48, 49, 45, 48, 49>>,    \* "2025-01-01"
              <<50, 48, 50, 53, 45, 48, 49, 45, 48, 50>> }   \* "2025-01-02"
FailureFileName(d) == FailedPrefix \o d \o JsonExt
ForeignNames ==
  { <<110, 111, 116, 101, 115>> \o JsonExt,                  \* "notes.json"
    <<97, 114, 99, 104, 105, 118, 101>> \o JsonExt,          \* "archive.json"
    FailureFileName(<<50, 48, 50, 53, 45, 48, 49, 45, 48, 50>>)
      \o <<46, 98, 97, 107>>,                                \* "...2025-01-02.json.bak"
    FailedPrefix \o <<50, 48, 50, 53, 45, 48, 49, 45, 48, 50>>
      \o <<46, 116, 120, 116>> }                             \* "...2025-01-02.txt"
DirNames == {FailureFileName(d) : d \in IsoDates} \cup ForeignNames

IsFailureFile(n) == \E d \in IsoDates : n = FailureFileName(d)
DateOf(n) == SubSeq(n, Len(FailedPrefix) + 1, Len(FailedPrefix) + 10)
Digit(c) == c - 48
\* the calendar date an ISO date string denotes, as a comparable number
DateValue(d) ==
  (Digit(d[1]) * 1000 + Digit(d[2]) * 100 + Digit(d[3]) * 10 + Digit(d[4])) * 10000
  + (Digit(d[6]) * 10 + Digit(d[7])) * 100
  + (Digit(d[9]) * 10 + Digit(d[10]))

\* file.endsWith(".json")
EndsWith(n, suffix) ==
  /\ Len(n) >= Len(suffix)
  /\ SubSeq(n, Len(n) - Len(suffix) + 1, Len(n)) = suffix

\* files.filter(file => file.endsWith(".json"))
JsonFiles(fs) == SelectSeq(fs, LAMBDA n : EndsWith(n, JsonExt))

\* a < b in code-unit order, the order of Array.prototype.sort() without a
\* comparator
RECURSIVE LexLess(_, _)
LexLess(a, b) ==
  IF b = <<>> THEN FALSE
  ELSE IF a = <<>> THEN TRUE
  ELSE IF Head(a) # Head(b) THEN Head(a) < Head(b)
  ELSE LexLess(Tail(a), Tail(b))

RECURSIVE InsertSorted(_, _)
InsertSorted(x, s) ==
  IF s = <<>> THEN <<x>>
  ELSE IF LexLess(x, Head(s)) THEN <<x>> \o s
  ELSE <<Head(s)>> \o InsertSorted(x, Tail(s))

\* jsonFiles.sort()
RECURSIVE SortNames(_)
SortNames(s) == IF s = <<>> THEN <<>> ELSE InsertSorted(Head(s), SortNames(Tail(s)))

\* jsonFiles.sort(); jsonFiles[jsonFiles.length - 1]
LatestFile(jsonFiles) == SortNames(jsonFiles)[Len(jsonFiles)]

DistinctSeqs(S, n) ==
  {s \in SeqsUpTo(S, n) : \A i, j \in 1..Len(s) : i # j => s[i] # s[j]}

GenIdle == cdks = <<>> /\ fids = <<>> /\ tasks = <<>> /\ gpc = "idle"

\* main() started with --process-failed; failed_tasks/ may be missing
\* (dirOk = FALSE) or hold any entries, listed in any order
MainInit ==
  /\ GenIdle
  /\ RunIdle
  /\ CallIdle
  /\ dirOk \in BOOLEAN
  /\ files \in DistinctSeqs(DirNames, MaxDirEntries)
  /\ (~dirOk => files = <<>>)
  /\ filePath = <<>>
  /\ exitCode = -1
  /\ mpc = "readdir"
  /\ devMode = FALSE /\ report = <<>>

\* fs.readdir throws: caught, process.exit(1)
ReadDirFails ==
  /\ mpc = "readdir" /\ ~dirOk
  /\ exitCode' = 1 /\ mpc' = "exit"
  /\ UNCHANGED <<dirOk, files, filePath, devMode, report, genVars, runVars, callVars>>

\* jsonFiles.length === 0: process.exit(1)
NoFailureFile ==
  /\ mpc = "readdir" /\ dirOk
  /\ JsonFiles(files) = <<>>
  /\ exitCode' = 1 /\ mpc' = "exit"
  /\ UNCHANGED <<dirOk, files, filePath, devMode, report, genVars, runVars, callVars>>

\* the latest file is chosen and handed to processFailedTasks
SelectLatest ==
  /\ mpc = "readdir" /\ dirOk
  /\ JsonFiles(files) # <<>>
  /\ filePath' = LatestFile(JsonFiles(files))
  /\ mpc' = "replay"
  /\ UNCHANGED <<dirOk, files, exitCode, devMode, report, genVars, runVars, callVars>>

MainNext == ReadDirFails \/ NoFailureFile \/ SelectLatest

SpecMain == MainInit /\ [][MainNext]_vars

\* C9: for every content of failed_tasks/, the file handed to the replay
\* is the failure file failed_tasks_<ISO-date>.json whose date is the
\* latest among the failure files of the directory, and no other file.
C9_ReplaysLatestFailureFile ==
  mpc = "replay" =>
    /\ IsFailureFile(filePath)
    /\ \A k \in 1..Len(files) :
         IsFailureFile(files[k]) =>
           DateValue(DateOf(files[k])) <= DateValue(DateOf(filePath))

\* ------------------------------------------- one call of processGiftCode
\* The submit of one task on its own: the server's behaviour on the first
\* round (bs1) and on a second round (bs2), for every request-retry limit
\* the configuration schema accepts up to the bound.
CallInit ==
  /\ GenIdle /\ MainIdle /\ RunIdle
  /\ \E n \in 0..MaxRequestRetries :
       \E b1 \in Behaviours(GiftResponses, Errors, n) :
         \E b2 \in (IF \A k \in 1..n : b1[k].k = "error"
                    THEN Behaviours(GiftResponses, {AxiosTimeout, AxiosNetwork}, n)
                    ELSE {b1}) :
           call = [bs1 |-> b1, bs2 |-> b2, maxAttempts |-> n]
  /\ out = NoOutcome
  /\ cpc = "call"

CallProcessGiftCode ==
  /\ cpc = "call"
  /\ out' = processGiftCode("f1", "c1", call.bs1, call.bs2, call.maxAttempts)
  /\ cpc' = "returned"
  /\ UNCHANGED <<call, genVars, mainVars, runVars>>

CallNext == CallProcessGiftCode

SpecCall == CallInit /\ [][CallNext]_vars

\* C4: when every request-level attempt of the submit fails with
\* ECONNABORTED, processGiftCode makes exactly one more submit round (two
\* requestWithRetry calls in all) before it returns a failure result.
C4_BonusRoundAfterTimeout ==
  (/\ cpc = "returned"
   /\ call.maxAttempts >= 1
   /\ \A k \in 1..call.maxAttempts : call.bs1[k] = AxiosTimeout)
  => (out.rounds = 2 /\ ~out.result.success)

\* ------------------------------------------------- the workflow, step by step
SetWf(i, w) == wf' = [wf EXCEPT ![i] = w]
FailedResult(i, message) == GiftCodeResult(FALSE, message, tasks[i].cdk, tasks[i].fid)

\* A failed round of the captcha/submit loop: run the loop again while the
\* budget lasts, else end the task as failed and go on to persist it.
AfterFailedRound(w, failure) ==
  IF MayRetry(w.retry)
  THEN [w EXCEPT !.pc = "captcha", !.retry = w.retry + 1]
  ELSE [w EXCEPT !.pc = "saveRead",
                 !.result = [failure EXCEPT !.message = failure.message \o ExhaustedSuffix]]

\* the place of task i among the tasks of its batch in the order in which
\* their promises settle, when it settles now (batched program); kept for
\* the batch that runs or ran last
SettleOrder(i) ==
  IF mode = "batch" THEN 1 + Cardinality({k \in DOMAIN wf : k # i /\ wf[k].pc = "done"}) ELSE 0

\* the step after the account resolution: the batched program redeems at
\* once, the sequential one enters the captcha loop
AfterResolve == IF mode = "batch" THEN "redeem" ELSE "captcha"

\* RESOLVE_ACCOUNT: getPlayerInfo, and the early return when it gives null
ResolveAccount(i) ==
  /\ wf[i].pc = "resolve"
  /\ \E playerInfo \in {getPlayerInfo(bs, maxRetries) :
                            bs \in Behaviours(PlayerResponses, RunErrors, maxRetries)} :
          IF AccountMissing(playerInfo)
          THEN SetWf(i, [wf[i] EXCEPT !.pc = "done", !.used = @ \cup {ApiParams},
                                      !.result = FailedResult(i, PlayerInfoFailedMsg),
                                      !.order = SettleOrder(i)])
          ELSE SetWf(i, [wf[i] EXCEPT !.pc = AfterResolve, !.used = @ \cup {ApiParams},
                           !.info = IF playerInfo = <<>> THEN NoInfo ELSE playerInfo[1]])
  /\ UNCHANGED <<genVars, mainVars, callVars, cfgVars, spc, idx, results, stats, store>>

\* the code and err_code of the answer a redeem got, if it got one
AnswerOf(resp) == [code |-> resp.code, err_code |-> resp.err_code]
Answered(bs1, bs2, maxAttempts) ==
  LET r1 == requestWithRetry(bs1, maxAttempts)
      r2 == requestWithRetry(bs2, maxAttempts)
  IN IF r1.kind = "return" THEN AnswerOf(r1.value)
     ELSE IF IsTimeoutError(r1.value) /\ r2.kind = "return" THEN AnswerOf(r2.value)
     ELSE NoAnswer

\* what a redeem can come to, over the behaviours of the server: the outcome
\* of processGiftCode and the answer it got
RedeemOutcomes(fid, cdk, maxAttempts) ==
  UNION {{[o |-> processGiftCode(fid, cdk, bs1, bs2, maxAttempts),
           answer |-> Answered(bs1, bs2, maxAttempts)] :
            bs2 \in (IF requestWithRetry(bs1, maxAttempts).kind = "throw"
                        /\ IsTimeoutError(requestWithRetry(bs1, maxAttempts).value)
                     THEN Behaviours(RunGiftResponses, RunErrors, maxAttempts)
                     ELSE {bs1})} :
          bs1 \in Behaviours(RunGiftResponses, RunErrors, maxAttempts)}

\* the labelled result of processSingleCode
Labelled(result, info) ==
  [result EXCEPT !.message = LabelledMessage(info, result.cdk, result.success, result.message)]

\* processSingleCode of the batched program: processGiftCode, then the
\* labelled message
Redeem(i) ==
  /\ wf[i].pc = "redeem"
  /\ \E c \in RedeemOutcomes(tasks[i].fid, tasks[i].cdk, maxRetries) :
       SetWf(i, [wf[i] EXCEPT !.pc = "done", !.result = Labelled(c.o.result, wf[i].info),
                              !.answer = c.answer, !.used = @ \cup {ApiParams},
                              !.order = SettleOrder(i)])
  /\ UNCHANGED <<genVars, mainVars, callVars, cfgVars, spc, idx, results, stats, store>>

\* CAPTCHA_ACQUIRE: fetch an image, solve it, validate the text. A fetch that
\* fails is an exception, caught at the task boundary.
AcquireCaptcha(i) ==
  /\ wf[i].pc = "captcha"
  /\ \E r \in {[x EXCEPT !.sent = 0, !.waits = <<>>] :
                   x \in {requestWithRetry(bs, maxRetries) :
                            bs \in Behaviours(CaptchaResponses, RunErrors, maxRetries)}} :
       LET w == [wf[i] EXCEPT !.fetches = wf[i].fetches + 1, !.used = @ \cup {ApiParams},
                              !.redeems = 0]
       IN IF r.kind = "throw"
          THEN SetWf(i, [w EXCEPT !.pc = "done", !.captcha = <<>>,
                                  !.result = FailedResult(i, CaughtMessage(r.value))])
          ELSE \E text \in CaptchaTexts :
                 IF ValidCaptcha(text)
                 THEN SetWf(i, [w EXCEPT !.pc = "submit", !.captcha = text])
                 ELSE SetWf(i, AfterFailedRound([w EXCEPT !.captcha = text],
                        Labelled(FailedResult(i, CaptchaFailedMsg), w.info)))
  /\ UNCHANGED <<genVars, mainVars, callVars, cfgVars, spc, idx, results, stats, store>>

\* SUBMIT and CLASSIFY: processGiftCode with the solved text, then the
\* labelled message; a failure is a failed round of the loop.
Submit(i) ==
  /\ wf[i].pc = "submit"
  /\ \E c \in RedeemOutcomes(tasks[i].fid, tasks[i].cdk, maxRetries) :
         LET o == c.o
             w == [wf[i] EXCEPT !.captcha = <<>>, !.used = @ \cup {ApiParams},
                                !.submitted = IF o.sent > 0 THEN wf[i].captcha
                                              ELSE wf[i].submitted,
                                !.redeems = o.sent]
         IN IF o.result.success
            THEN SetWf(i, [w EXCEPT !.pc = "done", !.result = Labelled(o.result, w.info)])
            ELSE SetWf(i, AfterFailedRound(w, Labelled(o.result, w.info)))
  /\ UNCHANGED <<genVars, mainVars, callVars, cfgVars, spc, idx, results, stats, store>>

\* append(task), first half: read and parse today's file
SaveRead(i) ==
  /\ wf[i].pc = "saveRead"
  /\ SetWf(i, [wf[i] EXCEPT !.pc = "saveWrite", !.captcha = <<>>,
                             !.buf = ExistingTasks(store[today])])
  /\ UNCHANGED <<genVars, mainVars, callVars, cfgVars, spc, idx, results, stats, store>>

\* append(task), second half: write the list back with the task added
SaveWrite(i) ==
  /\ wf[i].pc = "saveWrite"
  /\ store' = [store EXCEPT ![today] = OkFile(Appended(wf[i].buf, tasks[i]))]
  /\ SetWf(i, [wf[i] EXCEPT !.pc = "done", !.buf = <<>>, !.saves = wf[i].saves + 1])
  /\ UNCHANGED <<genVars, mainVars, callVars, cfgVars, spc, idx, results, stats>>

\* a workflow whose result the scheduler has taken
SettledWf == [IdleWf EXCEPT !.pc = "settled"]

\* ------------------------------------------------------------ the schedulers
AlreadyMarker == <<"yilingguo">>
TimeoutMarker == <<"TIMEOUT">>
ChaoshiMarker == <<"chaoshi">>

\* the bucket of a result in batched mode
BucketBatched(result) ==
  IF result.success
  THEN (IF Includes(result.message, AlreadyMarker) THEN "alreadyClaimed" ELSE "success")
  ELSE (IF Includes(result.message, TimeoutMarker) THEN "timeout" ELSE "failure")

\* mutant: the sequential run matches the literal marker only
BucketLiteralOnly(result) ==
  IF result.success
  THEN (IF Includes(result.message, AlreadyMarker) THEN "alreadyClaimed" ELSE "success")
  ELSE (IF Includes(result.message, TimeoutMarker) THEN "timeout" ELSE "failure")

\* the bucket of a result in the sequential run and in the replay
BucketSequential(result) ==
  IF result.success
  THEN (IF Includes(result.message, AlreadyMarker) THEN "alreadyClaimed" ELSE "success")
  ELSE (IF Includes(result.message, TimeoutMarker) \/ Includes(result.message, ChaoshiMarker)
        THEN "timeout" ELSE "failure")

Counted(st, bucket) == [st EXCEPT ![bucket] = st[bucket] + 1]

\* batchResults.forEach: every result counted, in order
RECURSIVE CountedAll(_, _)
CountedAll(st, rs) ==
  IF rs = <<>> THEN st ELSE CountedAll(Counted(st, BucketBatched(Head(rs))), Tail(rs))

ZeroStats == [success |-> 0, failure |-> 0, timeout |-> 0, alreadyClaimed |-> 0]
Min(a, b) == IF a < b THEN a ELSE b
\* mutant: a slice that takes every remaining task
BatchOfRest(i) == i..Len(tasks)

\* tasks.slice(i, i + batchSize), as positions
BatchOf(i) == i..Min(i + batchSize - 1, Len(tasks))

\* the task lists of the runs: one account, up to MaxTasks codes, repeats
\* allowed, the first code being "c1"
RunTaskLists ==
  {GenerateTasks(cs, <<"f1">>) :
     cs \in {c \in SeqsUpTo(CdkSet, MaxTasks) : c # <<>> /\ c[1] = "c1"}}
\* the task lists of the batched runs: up to MaxBatchTasks codes
BatchTaskLists ==
  {GenerateTasks(cs, <<"f1">>) :
     cs \in {c \in SeqsUpTo(CdkSet, MaxBatchTasks) : c # <<>> /\ c[1] = "c1"}}
\* the lists a failure file may hold: up to MaxFileTasks tasks, repeats
\* allowed, the first being (f1, c1)
ReplayTaskSet == {[fid |-> "f1", cdk |-> "c1"], [fid |-> "f1", cdk |-> "c2"]}
ReplayLists ==
  {ts \in SeqsUpTo(ReplayTaskSet, MaxFileTasks) :
     ts # <<>> => ts[1] = [fid |-> "f1", cdk |-> "c1"]}

\* a sequential run over a generated task list; today's failure file may
\* already exist from an earlier run of the day
SeqInit ==
  /\ mode = "seq"
  /\ tasks \in RunTaskLists
  /\ wf = [i \in 1..Len(tasks) |-> IdleWf]
  /\ batchSize = 1
  /\ today = 2 /\ replayDay = 0 /\ original = <<>>
  /\ store \in {[d \in Days |-> IF d = today THEN f ELSE MissingFile] :
                  f \in {MissingFile, CorruptFile, OkFile(<<tasks[1]>>)}}
  /\ spc = "next"

\* a replay of the latest failure file, today's or an earlier day's
ResumeInit ==
  /\ mode = "resume"
  /\ tasks = <<>> /\ wf = <<>> /\ batchSize = 1
  /\ today = 2 /\ replayDay \in Days
  /\ \E f \in {CorruptFile} \cup {OkFile(ts) : ts \in ReplayLists} :
       /\ store = [d \in Days |-> IF d = replayDay THEN f ELSE MissingFile]
       /\ original = f.tasks
  /\ spc = "read"

RunInit ==
  /\ cdks = <<>> /\ fids = <<>> /\ gpc = "idle"
  /\ MainIdle /\ CallIdle
  /\ maxRetries = MaxRequestRetries
  /\ conf = LoadedConfig(MaxRequestRetries, 1)
  /\ idx = 1 /\ results = <<>> /\ stats = ZeroStats
  /\ (SeqInit \/ ResumeInit)

\* a batched run over a generated task list
BatchInit ==
  /\ cdks = <<>> /\ fids = <<>> /\ gpc = "idle"
  /\ MainIdle /\ CallIdle
  /\ maxRetries = MaxRequestRetries
  /\ idx = 1 /\ results = <<>> /\ stats = ZeroStats
  /\ mode = "batch"
  /\ tasks \in BatchTaskLists
  /\ wf = [i \in 1..Len(tasks) |-> IdleWf]
  /\ batchSize \in 1..MaxBatchSize
  /\ conf = LoadedConfig(MaxRequestRetries, batchSize)
  /\ today = 2 /\ replayDay = 0 /\ original = <<>>
  /\ store = [d \in Days |-> MissingFile]
  /\ spc = "next"

\* the runs under the batched scheduler: "batch" is the batched program,
\* "batchStore" the batched scheduler over the workflow that persists failures
BatchModes == {"batch", "batchStore"}

\* batched mode: the tasks of the next batch are all started
BatchStart ==
  /\ mode \in BatchModes /\ spc = "next" /\ idx <= Len(tasks)
  /\ wf' = [i \in DOMAIN wf |-> IF i \in BatchOf(idx) THEN [wf[i] EXCEPT !.pc = "resolve"]
                                ELSE [wf[i] EXCEPT !.order = 0]]
  /\ spc' = "await"
  /\ UNCHANGED <<genVars, mainVars, callVars, cfgVars, idx, results, stats, store>>

\* mutant: the delay is made after the last batch too
MoreBatchesAlways(i) == TRUE

\* if (i + batchSize < tasks.length), with i = idx - 1: a batch follows
MoreBatches(i) == i + batchSize < Len(tasks) + 1

\* mutant: the outcomes up to the first failed one only, as if a failed task
\* aborted its batch
SettledResultsUntilFailure(i) ==
  LET all == [k \in 1..Cardinality(BatchOf(i)) |-> wf[i + k - 1].result]
      bad == {k \in 1..Len(all) : ~all[k].success}
  IN IF bad = {} THEN all
     ELSE SubSeq(all, 1, (CHOOSE k \in bad : \A m \in bad : k <= m) - 1)

\* mutant: the outcomes in the order in which the promises settled
SettledResultsInSettleOrder(i) ==
  [k \in 1..Cardinality(BatchOf(i)) |->
     wf[CHOOSE j \in BatchOf(i) : wf[j].order = k].result]

\* the outcomes Promise.allSettled gives for the batch that starts at task i,
\* in task order
SettledResults(i) == [k \in 1..Cardinality(BatchOf(i)) |-> wf[i + k - 1].result]

\* mutant: a join that is over with the first settled task of the batch
AnySettled(i) == \E k \in BatchOf(i) : wf[k].pc = "done"

\* await Promise.allSettled: every task of the batch that starts at task i
\* has settled
AllSettled(i) == \A k \in BatchOf(i) : wf[k].pc = "done"

\* batched mode: Promise.allSettled has every outcome; each is pushed and
\* counted, then the next batch or the end
BatchSettle ==
  /\ mode \in BatchModes /\ spc = "await"
  /\ AllSettled(idx)
  /\ LET batchResults == SettledResults(idx)
     IN /\ results' = results \o batchResults
        /\ stats' = CountedAll(stats, batchResults)
  /\ spc' = IF MoreBatches(idx) THEN "delay" ELSE "finished"
  /\ idx' = idx + batchSize
  /\ wf' = [i \in DOMAIN wf |-> IF i \in BatchOf(idx) /\ wf[i].pc = "done"
                                THEN [SettledWf EXCEPT !.order = wf[i].order]
                                ELSE wf[i]]
  /\ UNCHANGED <<genVars, mainVars, callVars, cfgVars, store>>

\* batched mode: sleep(batchDelay) between two batches
BatchDelay ==
  /\ mode \in BatchModes /\ spc = "delay"
  /\ spc' = "next"
  /\ UNCHANGED <<genVars, mainVars, callVars, cfgVars, idx, results, stats, wf, store>>

\* mutant: the list walked from its end
NextTaskFromEnd == Len(tasks) - idx + 1

\* for (const task of tasks): the task the loop is at
NextTask == idx

\* sequential mode and replay: the next task is started
TaskStart ==
  /\ mode \in {"seq", "resume"} /\ spc = "next" /\ idx <= Len(tasks)
  /\ SetWf(NextTask, [wf[NextTask] EXCEPT !.pc = "resolve"])
  /\ spc' = "await"
  /\ UNCHANGED <<genVars, mainVars, callVars, cfgVars, idx, results, stats, store>>

\* sequential mode: the task's result is counted and pushed
SeqAccount ==
  /\ mode = "seq" /\ spc = "await" /\ wf[idx].pc = "done"
  /\ stats' = Counted(stats, BucketSequential(wf[idx].result))
  /\ results' = Append(results, wf[idx].result)
  /\ idx' = idx + 1
  /\ spc' = IF idx < Len(tasks) THEN "next" ELSE "finished"
  /\ SetWf(idx, SettledWf)
  /\ UNCHANGED <<genVars, mainVars, callVars, cfgVars, store>>

\* replay: the failure file is read and parsed
ResumeRead ==
  /\ mode = "resume" /\ spc = "read"
  /\ LET f == store[replayDay]
     IN IF f.st # "ok" \/ f.tasks = <<>>
        THEN /\ spc' = "finished"
             /\ UNCHANGED <<tasks, wf>>
        ELSE /\ tasks' = f.tasks
             /\ wf' = [i \in 1..Len(f.tasks) |-> IdleWf]
             /\ spc' = "next"
  /\ UNCHANGED <<cdks, fids, gpc, mainVars, callVars, cfgVars, idx, results, stats, store>>

\* replay: the task's result is counted, a succeeded task is removed from
\* the replayed file at once, the result is pushed
ResumeAccount ==
  /\ mode = "resume" /\ spc = "await" /\ wf[idx].pc = "done"
  /\ stats' = Counted(stats, BucketSequential(wf[idx].result))
  /\ store' = IF wf[idx].result.success
              THEN [store EXCEPT ![replayDay] =
                      removeSuccessfulTask(store[replayDay], tasks[idx])]
              ELSE store
  /\ results' = Append(results, wf[idx].result)
  /\ idx' = idx + 1
  /\ spc' = IF idx < Len(tasks) THEN "next" ELSE "finished"
  /\ SetWf(idx, SettledWf)
  /\ UNCHANGED <<genVars, mainVars, callVars, cfgVars>>

\* the sequential program: a normal run or a replay
Next ==
  \/ \E i \in DOMAIN wf :
       \/ ResolveAccount(i)
       \/ AcquireCaptcha(i)
       \/ Submit(i)
       \/ SaveRead(i)
       \/ SaveWrite(i)
  \/ TaskStart \/ SeqAccount
  \/ ResumeRead \/ ResumeAccount

Spec == RunInit /\ [][Next]_vars

\* the batched program
BatchNext ==
  \/ \E i \in DOMAIN wf : (ResolveAccount(i) \/ Redeem(i))
  \/ BatchStart \/ BatchSettle \/ BatchDelay

SpecBatch == BatchInit /\ [][BatchNext]_vars

\* C3: a redeem answered with err_code 40008, whatever the code field, gives
\* success = true with the already-redeemed message, and when the batch is
\* settled the scheduler counts each such task under alreadyClaimed, the
\* other three buckets taking the remaining tasks of the batch only.
C3_Result ==
  \A i \in DOMAIN wf :
    (wf[i].pc = "done" /\ wf[i].answer.err_code = 40008)
    => (wf[i].result.success /\ Includes(wf[i].result.message, AlreadyMsg))
C3_Counted ==
  LET B == {i \in DOMAIN wf : wf[i].pc = "done" /\ wf'[i].pc = "settled"}
      A == {i \in B : wf[i].answer.err_code = 40008}
  IN /\ stats'.alreadyClaimed - stats.alreadyClaimed >= Cardinality(A)
     /\ (stats'.success - stats.success) + (stats'.timeout - stats.timeout)
          + (stats'.failure - stats.failure) <= Cardinality(B) - Cardinality(A)
C3_AlreadyClaimed == []C3_Result /\ [][C3_Counted]_vars

C3_Witness ==
  /\ Len(tasks) = 2 /\ batchSize = 1 /\ idx = 2
  /\ stats.alreadyClaimed = 1 /\ stats.success = 0
  /\ results[1].success /\ Includes(results[1].message, AlreadyMsg)
  /\ wf[2].pc = "done" /\ wf[2].answer = [code |-> 1, err_code |-> 40008]
  /\ wf[2].result.success

\* C5: the captcha/submit loop of a task is run again at most
\* TaskMaxRetries times, whether the rounds failed on the captcha format or
\* on a business rejection; a task is persisted only with its budget used
\* up, it is then reported as failed and is in today's failure file, and a
\* task whose message carries the exhaustion suffix has been persisted.
C5_RetryBudget ==
  \A i \in DOMAIN wf :
    LET w == wf[i]
    IN /\ w.retry <= TaskMaxRetries
       /\ w.fetches <= w.retry + 1
       /\ (w.pc \in {"saveRead", "saveWrite"}
             => (w.retry = TaskMaxRetries /\ ~w.result.success))
       /\ ((w.pc = "done" /\ w.saves > 0)
             => /\ w.retry = TaskMaxRetries /\ w.saves = 1
                /\ ~w.result.success
                /\ tasks[i] \in Range(store[today].tasks))
       /\ ((w.pc = "done" /\ Includes(w.result.message, ExhaustedSuffix))
             => (w.saves = 1 /\ ~w.result.success))

C5_Witness ==
  \E i \in DOMAIN wf :
    /\ wf[i].pc = "done" /\ wf[i].retry = TaskMaxRetries
    /\ wf[i].fetches = TaskMaxRetries + 1
    /\ wf[i].submitted # <<>>
    /\ wf[i].saves = 1 /\ ~wf[i].result.success

\* C6: a redeem request is only ever sent with a captcha text of exactly 4
\* characters none of which is CJK, and a round whose solved text is invalid
\* sends nothing and ends in a task-level retry (or, the budget used up, in
\* the persisting of the task).
C6_OnlyValidSubmitted ==
  \A i \in DOMAIN wf :
    LET Good(t) == Len(t) = 4 /\ \A k \in 1..Len(t) : (t[k] < 19968 \/ t[k] > 40869)
    IN /\ wf[i].pc = "submit" => Good(wf[i].captcha)
       /\ wf[i].submitted # <<>> => Good(wf[i].submitted)
C6_InvalidRetries ==
  \A i \in DOMAIN wf :
    LET Good(t) == Len(t) = 4 /\ \A k \in 1..Len(t) : (t[k] < 19968 \/ t[k] > 40869)
    IN (/\ wf[i].pc = "captcha"
        /\ wf'[i].fetches = wf[i].fetches + 1
        /\ wf'[i].captcha # <<>> /\ ~Good(wf'[i].captcha))
       => /\ wf'[i].submitted = wf[i].submitted
          /\ \/ wf'[i].pc = "captcha" /\ wf'[i].retry = wf[i].retry + 1
             \/ wf'[i].pc = "saveRead" /\ wf[i].retry = TaskMaxRetries
C6_ValidCaptchaOnly == []C6_OnlyValidSubmitted /\ [][C6_InvalidRetries]_vars

C6_Witness ==
  \E i \in DOMAIN wf :
    /\ wf[i].pc = "submit" /\ wf[i].captcha = <<97, 98, 99, 100>>
    /\ wf[i].retry = 1 /\ wf[i].fetches = 2 /\ wf[i].submitted = <<>>

\* C7 as stated: a task that has used up its retries is exactly once in
\* today's failure file when its workflow ends, with success = false.
C7_ExactlyOnce ==
  \A i \in DOMAIN wf :
    (wf[i].pc = "done" /\ wf[i].saves = 1)
    => (CountIn(store[today].tasks, tasks[i]) = 1 /\ ~wf[i].result.success)

\* C7: a task that has used up its retries is added once to today's failure
\* file when its workflow ends: the file then holds one more entry of the
\* task than it held before (so one only if it held none), and the task's
\* result has success = false.
C7_Persisted ==
  \A i \in DOMAIN wf :
    (wf[i].pc = "done" /\ wf[i].saves = 1)
    => /\ ~wf[i].result.success
       /\ store[today].st = "ok"
       /\ CountIn(store[today].tasks, tasks[i]) >= 1
C7_AddsOne ==
  \A i \in DOMAIN wf :
    (wf[i].pc = "saveWrite" /\ wf'[i].pc = "done")
    => CountIn(store'[today].tasks, tasks[i])
         = CountIn(ExistingTasks(store[today]), tasks[i]) + 1
C7_OneMoreEntry == []C7_Persisted /\ [][C7_AddsOne]_vars

C7_Witness ==
  \E i \in DOMAIN wf :
    /\ wf[i].pc = "done" /\ wf[i].saves = 1
    /\ CountIn(store[today].tasks, tasks[i]) = 2

\* C8 as stated: in a replay, after each processed task the replayed file
\* holds exactly the entries of the original list that have not succeeded
\* (those not yet replayed and those replayed without success), and it is
\* gone once all have succeeded.
C8_ExactlyUnresolved ==
  (mode = "resume" /\ spc \in {"next", "finished"} /\ original # <<>>)
  => LET open == {j \in 1..Len(original) : j > Len(results) \/ ~results[j].success}
         F[n \in 0..Len(original)] ==
           IF n = 0 THEN <<>>
           ELSE IF n \in open THEN Append(F[n - 1], original[n]) ELSE F[n - 1]
     IN /\ store[replayDay].tasks = F[Len(original)]
        /\ (open = {} => store[replayDay] = MissingFile)

\* C8: in a replay, after each processed task the replayed file begins with
\* exactly the entries of the original list whose (account, code) pair has
\* not succeeded so far, in their order; it holds nothing more when it is an
\* earlier day's file, and when it is today's file what follows are entries
\* of replayed tasks that failed (added again on exhaustion); once all tasks
\* have succeeded the file is gone.
C8_UnresolvedPrefix ==
  (mode = "resume" /\ spc \in {"next", "finished"} /\ original # <<>>)
  => LET succeeded == {tasks[j] : j \in {k \in 1..Len(results) : results[k].success}}
         U == SelectSeq(original, LAMBDA t : t \notin succeeded)
         f == store[replayDay].tasks
     IN /\ Len(f) >= Len(U) /\ SubSeq(f, 1, Len(U)) = U
        /\ (replayDay # today => f = U)
        /\ \A k \in (Len(U) + 1)..Len(f) :
             \E j \in 1..Len(results) : ~results[j].success /\ tasks[j] = f[k]
        /\ ((spc = "finished" /\ \A j \in 1..Len(results) : results[j].success)
              => store[replayDay] = MissingFile)

C8_Witness ==
  /\ mode = "resume" /\ spc = "next" /\ idx = 2 /\ Len(original) = 2
  /\ original[1] # original[2]
  /\ results[1].success
  /\ store[replayDay] = OkFile(<<original[2]>>)

\* C10: a task whose account resolution gave null ends at once with the
\* failure "cannot get player info": no captcha fetched, no redeem sent, no
\* task-level retry, nothing written to the failure store.
C10_NoAccountEndsTask ==
  \A i \in DOMAIN wf :
    (wf[i].pc \notin {"idle", "resolve", "settled"} /\ wf[i].info = NoInfo)
    => /\ wf[i].pc = "done"
       /\ ~wf[i].result.success /\ wf[i].result.message = PlayerInfoFailedMsg
       /\ wf[i].fetches = 0 /\ wf[i].submitted = <<>> /\ wf[i].answer = NoAnswer
       /\ wf[i].retry = 0 /\ wf[i].saves = 0

C10_Witness ==
  \E i \in DOMAIN wf :
    /\ wf[i].pc = "done" /\ wf[i].info = NoInfo
    /\ wf[i].result.message = PlayerInfoFailedMsg
    /\ mode = "resume" /\ tasks[i] \in Range(store[replayDay].tasks)

\* C11: in the batched run a failed task stops nothing: while the run is not
\* finished some step can be taken, every settled batch has pushed one result
\* per task, in task order and for that task, a task whose requests all
\* failed has a failed result, and at the end the results are one per
\* generated task.
C11_OneResultPerTask ==
  /\ (spc # "finished" => ENABLED BatchNext)
  /\ Len(results) = (IF spc = "finished" THEN Len(tasks)
                     ELSE IF spc = "delay" THEN idx - 1
                     ELSE Min(idx - 1, Len(tasks)))
  /\ \A j \in 1..Len(results) :
       results[j].fid = tasks[j].fid /\ results[j].cdk = tasks[j].cdk
  /\ \A i \in DOMAIN wf :
       (wf[i].pc = "done" /\ wf[i].answer = NoAnswer) => ~wf[i].result.success

C11_Witness ==
  /\ spc = "finished" /\ Len(tasks) = 2 /\ batchSize = 1
  /\ Len(results) = 2
  /\ ~results[1].success /\ Includes(results[1].message, <<"Network Error">>)
  /\ results[2].success

\* C12: in the batched run a task is started only when every task of the
\* earlier batches has settled, with success or without, and while the
\* delay between two batches runs every task of the batches so far has
\* settled and no later task is started.
C12_JoinBeforeNextBatch ==
  mode = "batch" =>
    LET batchNo(i) == (i - 1) \div batchSize
        started(i) == wf[i].pc # "idle"
        settled(i) == wf[i].pc \in {"done", "settled"}
    IN /\ \A i, j \in DOMAIN wf :
            (batchNo(i) < batchNo(j) /\ started(j)) => settled(i)
       /\ spc = "delay" =>
            \A i \in DOMAIN wf : IF i < idx THEN settled(i) ELSE ~started(i)

C12_Witness ==
  /\ mode = "batch" /\ batchSize = 2 /\ Len(tasks) = 3
  /\ wf[1].pc = "settled" /\ wf[2].pc = "settled"
  /\ results[1].success /\ ~results[2].success
  /\ wf[3].pc = "redeem"

\* C13: in the batched run the number of workflows in flight (started and not
\* yet settled) is never above batchSize.
C13_BoundedParallelism ==
  mode = "batch" =>
    Cardinality({i \in DOMAIN wf : wf[i].pc \in {"resolve", "redeem"}}) <= batchSize

C13_Witness ==
  /\ mode = "batch" /\ batchSize = 2 /\ Len(tasks) = 3
  /\ wf[1].pc = "resolve" /\ wf[2].pc = "redeem" /\ wf[3].pc = "idle"

\* C14: in the sequential run and in the replay at most one task is in
\* flight, and a task is started only when every task before it in the list
\* has produced its result, which is then in the result sequence.
C14_OneAtATime ==
  mode \in {"seq", "resume"} =>
    /\ Cardinality({i \in DOMAIN wf : wf[i].pc \notin {"idle", "settled"}}) <= 1
    /\ \A j \in DOMAIN wf :
         wf[j].pc # "idle"
         => /\ \A i \in 1..(j - 1) : wf[i].pc = "settled"
            /\ Len(results) >= j - 1
            /\ \A i \in 1..(j - 1) :
                 results[i].fid = tasks[i].fid /\ results[i].cdk = tasks[i].cdk

C14_Witness ==
  /\ mode = "resume" /\ Len(tasks) = 2 /\ tasks[1] # tasks[2]
  /\ wf[1].pc = "settled" /\ ~results[1].success
  /\ wf[2].pc = "submit"

\* ------------------------------------------------------ generateSignedObject
\* Strings are sequences of UTF-16 code units. An input object is the
\* sequence of its fields in the order they were given, the keys distinct; a
\* value is a number, a string or an object, itself a sequence of fields.
Num(n) == [t |-> "number", n |-> n, s |-> <<>>, o |-> <<>>]
Str(s) == [t |-> "string", n |-> 0, s |-> s, o |-> <<>>]
Obj(o) == [t |-> "object", n |-> 0, s |-> <<>>, o |-> o]

\* String(n) for the numbers that occur
DigitsOf(n) == IF n < 10 THEN <<48 + n>> ELSE <<48 + (n \div 10), 48 + (n % 10)>>

\* JSON.stringify of an object with number values: {"k":v,...} in the
\* object's own field order
RECURSIVE JsonMembers(_)
JsonMembers(o) ==
  IF o = <<>> THEN <<>>
  ELSE <<34>> \o Head(o).key \o <<34, 58>> \o DigitsOf(Head(o).n)
       \o (IF Tail(o) = <<>> THEN <<>> ELSE <<44>> \o JsonMembers(Tail(o)))
JsonStringify(o) == <<123>> \o JsonMembers(o) \o <<125>>

\* typeof value === "object" ? JSON.stringify(value) : value, in `${...}`
RenderValue(v) ==
  IF v.t = "object" THEN JsonStringify(v.o)
  ELSE IF v.t = "number" THEN DigitsOf(v.n)
  ELSE v.s

\* Object.keys(inputObject)
ObjectKeys(fields) == [i \in 1..Len(fields) |-> fields[i].key]

\* inputObject[key]
ValueOf(fields, key) == (CHOOSE f \in Range(fields) : f.key = key).value

\* mutant: the keys left in the order given
UnsortedKeys(fields) == ObjectKeys(fields)

\* Object.keys(inputObject).sort()
SortedKeys(fields) == SortNames(ObjectKeys(fields))

\* .map(key => `${key}=${value}`).join("&")
RECURSIVE JoinPairs(_, _)
JoinPairs(keys, fields) ==
  IF keys = <<>> THEN <<>>
  ELSE Head(keys) \o <<61>> \o RenderValue(ValueOf(fields, Head(keys)))
       \o (IF Tail(keys) = <<>> THEN <<>> ELSE <<38>> \o JoinPairs(Tail(keys), fields))

\* CryptoJS.MD5(text).toString(): a digest, taken as one-to-one on the texts
\* that occur
MD5(text) == [md5 |-> text]

\* the key "sign"
SignKey == <<115, 105, 103, 110>>

\* { sign, ...inputObject }: the property sign is created first with the
\* digest; the spread then assigns every own field of the input, so a field
\* of the input named sign replaces the digest, and the others are added
\* after it in the input's order
SpreadAfterSign(sign, fields) ==
  <<[key |-> SignKey,
     value |-> IF \E f \in Range(fields) : f.key = SignKey THEN ValueOf(fields, SignKey)
               ELSE sign]>>
  \o SelectSeq(fields, LAMBDA f : f.key # SignKey)

\* generateSignedObject: the value under sign and the other fields of the
\* object returned
generateSignedObject(fields, signSalt) ==
  LET signed == SpreadAfterSign(MD5(JoinPairs(SortedKeys(fields), fields) \o signSalt), fields)
  IN [sign |-> ValueOf(signed, SignKey), fields |-> Tail(signed)]

SignKeys == {<<97>>, <<98>>, <<66>>, <<97, 98>>}      \* "a", "b", "B", "ab"
SignValues ==
  { Num(1), Num(12), Str(<<49>>),
    Obj(<<[key |-> <<120>>, n |-> 1], [key |-> <<121>>, n |-> 2]>>),
    Obj(<<[key |-> <<121>>, n |-> 2], [key |-> <<120>>, n |-> 1]>>) }
Salts == {<<115, 49>>, <<115, 50>>}                   \* "s1", "s2"
SignFields == {[key |-> k, value |-> v] : k \in SignKeys, v \in {Num(1), Num(12)}}
                \cup {[key |-> <<97>>, value |-> v] : v \in SignValues}
                \cup {[key |-> SignKey, value |-> Str(<<49>>)]}

\* the input objects: up to MaxFields fields with distinct keys
InputObjects ==
  {fs \in SeqsUpTo(SignFields, MaxFields) :
     \A i, j \in 1..Len(fs) : i # j => fs[i].key # fs[j].key}

\* the same fields given in another order
Reorderings(fs) == {p \in [1..Len(fs) -> Range(fs)] : Range(p) = Range(fs)}

NoSigned == [sign |-> MD5(<<>>), fields |-> <<>>]

\* two objects with the same fields, given in any two orders, and a salt
SignInit ==
  /\ GenIdle /\ MainIdle /\ RunIdle
  /\ \E a \in InputObjects : \E b \in Reorderings(a) : \E salt \in Salts :
       call = [a |-> a, b |-> b, signSalt |-> salt]
  /\ out = [a |-> NoSigned, b |-> NoSigned]
  /\ cpc = "call"

CallSign ==
  /\ cpc = "call"
  /\ out' = [a |-> generateSignedObject(call.a, call.signSalt),
             b |-> generateSignedObject(call.b, call.signSalt)]
  /\ cpc' = "returned"
  /\ UNCHANGED <<call, genVars, mainVars, runVars>>

SignNext == CallSign

SpecSign == SignInit /\ [][SignNext]_vars

\* C15: two input objects that hold the same fields (the same value under
\* each key), given in whatever orders, get the same signature under the
\* same salt.
C15_OrderIndependent ==
  cpc = "returned" => out.a.sign = out.b.sign

C15_Witness ==
  /\ cpc = "returned"
  /\ Len(call.a) = 2 /\ call.a[1].key = <<98>> /\ call.a[2].key = <<97>>
  /\ call.b = <<call.a[2], call.a[1]>>
  /\ call.a[1].value = Num(12) /\ call.a[2].value = Num(1)
  /\ out.a.sign = out.b.sign
  /\ out.a.sign # MD5(<<>>)

\* --------------------------------------------------- hot configuration reload
\* The watcher of the .env file: on a change the configuration is loaded
\* again and the listeners are called at once; handleConfigChange of the
\* ApiService takes maxRetries, timeout, apiBaseUrl and signSalt and makes a
\* new axios instance. The event is handled whenever the run awaits.
Reload ==
  /\ mode = "batch" /\ spc # "finished"
  /\ conf.reloads < MaxReloads
  /\ conf' = ReloadedConfig(conf, idx)
  /\ maxRetries' = conf'.maxRetries
  /\ UNCHANGED <<genVars, mainVars, callVars, mode, batchSize, today, replayDay, original,
                 spc, idx, results, stats, wf, store>>

\* a batched run of up to MaxTasks tasks during which the .env file may change
ReloadInit == BatchInit /\ Len(tasks) <= MaxTasks

ReloadNext == BatchNext \/ Reload

SpecReload == ReloadInit /\ [][ReloadNext]_vars

\* C16: a reload never changes the parameters of a running task (all the
\* requests of one task are made with one signSalt, timeout, retry limit and
\* base URL), and a batch started after a reload runs with the reloaded
\* batchSize.
C16_ReloadAtBoundaryOnly ==
  /\ \A i \in DOMAIN wf : Cardinality(wf[i].used) <= 1
  /\ (conf.reloads > 0 /\ spc = "await" /\ idx > conf.atIdx)
       => batchSize = conf.batchSize

\* ------------------------------------------------- main(): from start to exit
\* The whole program: main() loads the configuration, dispatches on
\* --process-failed, runs the tasks, prints the final report and exits.
\* mode tells the program and its arguments: "seq" and "resume" are the
\* sequential program without and with --process-failed, "batch" is the
\* batched program.

\* the failure files of the two days of the store
DayDates == << <<50, 48, 50, 53, 45, 48, 49, 45, 48, 49>>,      \* day 1: "2025-01-01"
               <<50, 48, 50, 53, 45, 48, 49, 45, 48, 50>> >>    \* day 2: "2025-01-02"
DayFile(d) == FailureFileName(DayDates[d])
ReadmeName == <<82, 69, 65, 68, 77, 69, 46, 116, 120, 116>>     \* "README.txt"

\* fs.readFile(filePath): the day whose file the path names
DayOfFile(name) == CHOOSE d \in Days : name = DayFile(d)

\* the listings of failed_tasks/ of the whole-program runs
ProgramListings == {<<>>, <<ReadmeName>>, <<DayFile(1)>>, <<DayFile(2), DayFile(1)>>}
LatestDay(fs) == CHOOSE d \in Days :
  /\ DayFile(d) \in Range(fs)
  /\ \A e \in Days : DayFile(e) \in Range(fs) => e <= d

\* mutant: a configuration with codes is accepted without accounts
ConfigLoadsCodesOnly(cs, fs) == cs # <<>>

\* ConfigSchema: cdks and fids hold at least one entry each, or loadConfig
\* throws; main() tests the same again before a normal run
ConfigLoads(cs, fs) == cs # <<>> /\ fs # <<>>

\* mutant: a run with a failed task ends with code 1
ExitCodeByOutcome(rs) == IF \E k \in 1..Len(rs) : ~rs[k].success THEN 1 ELSE 0

\* process.exit(0) after the report, whatever the results
ExitCodeAfterRun(rs) == 0

\* main(): the counts handed to printTaskSummary, computed from the results
SummaryStats(rs) ==
  LET successCount == Cardinality({k \in 1..Len(rs) : rs[k].success})
      alreadyClaimedCount ==
        Cardinality({k \in 1..Len(rs) :
                       rs[k].success /\ Includes(rs[k].message, AlreadyMarker)})
      failureCount == Len(rs) - successCount
      timeoutCount ==
        Cardinality({k \in 1..Len(rs) :
                       ~rs[k].success /\ (\/ Includes(rs[k].message, TimeoutMarker)
                                          \/ Includes(rs[k].message, ChaoshiMarker))})
  IN [success |-> successCount - alreadyClaimedCount,
      alreadyClaimed |-> alreadyClaimedCount,
      timeout |-> timeoutCount,
      failure |-> failureCount - timeoutCount]

\* (((success + alreadyClaimed) / totalTasks) * 100).toFixed(1), in tenths of
\* a percent; "0.0" for an empty run
RateTenths(st) ==
  LET totalTasks == st.success + st.alreadyClaimed + st.timeout + st.failure
  IN IF totalTasks > 0
     THEN (2000 * (st.success + st.alreadyClaimed) + totalTasks) \div (2 * totalTasks)
     ELSE 0

InfoLine(kind, val) == [level |-> "info", kind |-> kind, val |-> val]
ResultLine(kind, val) == [level |-> "result", kind |-> kind, val |-> val]
TaskLine(r) == InfoLine(IF r.success THEN "succeeded" ELSE "failed", <<r.fid, r.cdk>> \o r.message)

\* printTaskSummary: the lines it logs and the level of each
SummaryLines(st, rs) ==
  LET totalTasks == st.success + st.alreadyClaimed + st.timeout + st.failure
      successTasks == SelectSeq(rs, LAMBDA r : r.success)
      failedTasks == SelectSeq(rs, LAMBDA r : ~r.success)
  IN << InfoLine("total", <<totalTasks>>),
        InfoLine("success", <<st.success>>),
        InfoLine("alreadyClaimed", <<st.alreadyClaimed>>),
        InfoLine("timeout", <<st.timeout>>),
        InfoLine("failure", <<st.failure>>),
        InfoLine("rate", <<RateTenths(st)>>) >>
     \o [k \in 1..Len(successTasks) |-> TaskLine(successTasks[k])]
     \o [k \in 1..Len(failedTasks) |-> TaskLine(failedTasks[k])]
     \o (IF failedTasks # <<>> THEN <<InfoLine("saved", <<>>)>> ELSE <<>>)
     \o <<ResultLine("finished", <<>>)>>

\* the batched program's main(): its two closing lines
ClosingLines(rs) ==
  LET successCount == Cardinality({k \in 1..Len(rs) : rs[k].success})
      alreadyClaimedCount ==
        Cardinality({k \in 1..Len(rs) :
                       rs[k].success /\ Includes(rs[k].message, AlreadyMarker)})
  IN << ResultLine("elapsed", <<>>),
        ResultLine("counts", <<successCount - alreadyClaimedCount, alreadyClaimedCount,
                               Len(rs) - successCount>>) >>

\* Logger.info prints in development mode only (the log level is DEBUG in
\* development mode and RESULT otherwise); Logger.result always prints
Shown(line, dev) == line.level = "result" \/ (line.level = "info" /\ dev)

Printed(lines, dev) == SelectSeq(lines, LAMBDA l : Shown(l, dev))

\* main() is entered: the configured lists (either may be empty), the
\* verbosity, and for --process-failed the state of failed_tasks/ (missing,
\* without a .json file, or holding the files of one or two days, the latest
\* of them unparsable, empty or a list of tasks)
ProgramInit ==
  /\ tasks = <<>> /\ gpc = "idle" /\ CallIdle
  /\ mode \in {"seq", "resume", "batch"}
  /\ cdks \in {cs \in SeqsUpTo(CdkSet, MaxTasks) :
                 /\ cs # <<>> => cs[1] = "c1"
                 /\ mode = "resume" => Len(cs) <= 1}
  /\ fids \in {<<>>, <<"f1">>}
  /\ maxRetries = MaxRequestRetries
  /\ batchSize \in (IF mode = "batch" THEN 1..MaxBatchSize ELSE {1})
  /\ conf = LoadedConfig(MaxRequestRetries, batchSize)
  /\ spc = "idle" /\ idx = 1 /\ results = <<>> /\ stats = ZeroStats /\ wf = <<>>
  /\ today = 2 /\ replayDay = 0 /\ original = <<>>
  /\ dirOk \in (IF mode = "resume" THEN BOOLEAN ELSE {TRUE})
  /\ files \in (IF mode = "resume" /\ dirOk THEN ProgramListings ELSE {<<>>})
  /\ \E f \in {MissingFile, CorruptFile} \cup {OkFile(ts) : ts \in ReplayLists} :
       /\ mode = "resume" => (f # MissingFile /\ (Len(files) < 2 => Len(f.tasks) <= 1))
       /\ mode \in {"seq", "batch"} => f = MissingFile
       /\ store = [d \in Days |->
                     IF mode = "resume"
                     THEN (IF DayFile(d) \notin Range(files) THEN MissingFile
                           ELSE IF d = LatestDay(files) THEN f
                           ELSE OkFile(<<[fid |-> "f1", cdk |-> "c1"]>>))
                     ELSE (IF d = today THEN f ELSE MissingFile)]
  /\ filePath = <<>> /\ exitCode = -1 /\ mpc = "main"
  /\ devMode \in BOOLEAN /\ report = <<>>

\* loadConfig() throws (or the lists are found empty): process.exit(1)
ConfigError ==
  /\ mpc = "main" /\ ~ConfigLoads(cdks, fids)
  /\ exitCode' = 1 /\ mpc' = "exit"
  /\ UNCHANGED <<dirOk, files, filePath, devMode, report, genVars, runVars, callVars>>

\* a normal run: processGiftCodes is entered, the task list is generated
StartNormal ==
  /\ mpc = "main" /\ ConfigLoads(cdks, fids) /\ mode \in {"seq", "batch"}
  /\ tasks' = GenerateTasks(cdks, fids)
  /\ wf' = [i \in 1..Len(tasks') |-> IdleWf]
  /\ gpc' = "done" /\ spc' = "next" /\ mpc' = "run"
  /\ UNCHANGED <<cdks, fids, dirOk, files, filePath, exitCode, devMode, report, callVars,
                 cfgVars, idx, results, stats, store>>

\* --process-failed: failed_tasks/ is about to be listed
StartResume ==
  /\ mpc = "main" /\ ConfigLoads(cdks, fids) /\ mode = "resume"
  /\ mpc' = "readdir"
  /\ UNCHANGED <<dirOk, files, filePath, exitCode, devMode, report, genVars, runVars, callVars>>

\* processFailedTasks(filePath) is entered
OpenReplay ==
  /\ mpc = "replay" /\ mode = "resume" /\ spc = "idle"
  /\ replayDay' = DayOfFile(filePath)
  /\ original' = store[replayDay'].tasks
  /\ spc' = "read" /\ mpc' = "run"
  /\ UNCHANGED <<dirOk, files, filePath, exitCode, devMode, report, genVars, callVars,
                 mode, maxRetries, batchSize, today, conf, idx, results, stats, wf, store>>

\* the run is over: the report is printed, process.exit(0)
MainExit ==
  /\ mpc = "run" /\ spc = "finished"
  /\ report' = Printed(IF mode = "batch" THEN ClosingLines(results)
                       ELSE SummaryLines(SummaryStats(results), results), devMode)
  /\ exitCode' = ExitCodeAfterRun(results)
  /\ mpc' = "exit"
  /\ UNCHANGED <<dirOk, files, filePath, devMode, genVars, runVars, callVars>>

ProgramNext ==
  \/ ConfigError \/ StartNormal \/ StartResume
  \/ MainNext \/ OpenReplay
  \/ Next \/ BatchNext
  \/ MainExit

SpecProgram == ProgramInit /\ [][ProgramNext]_vars

\* C17: once the task list has been processed to completion the process
\* exits, and its exit code is 0 whatever the results are, every task having
\* failed included.
C17_ExitZeroAfterRun ==
  /\ (mpc = "run" /\ spc = "finished") => ENABLED MainExit
  /\ spc = "finished" => exitCode \in {-1, 0}
  /\ (mpc = "exit" /\ spc = "finished") => exitCode = 0

C17_Witness ==
  /\ mpc = "exit" /\ exitCode = 0 /\ mode = "seq"
  /\ Len(tasks) = 2 /\ Len(results) = 2
  /\ \A k \in 1..Len(results) : ~results[k].success

\* a task has been started, or a result exists
SomeTaskRan == results # <<>> \/ \E i \in DOMAIN wf : wf[i].pc # "idle"

\* the replayed file could not be read or parsed
ReplayUnreadable == mode = "resume" /\ replayDay \in Days /\ store[replayDay].st = "corrupt"

\* C18 (as stated): the process exits with code 1 when the code or account
\* list is empty, when in resumption mode the failure directory cannot be
\* listed, holds no failure file, or the failure file cannot be read or
\* parsed; and code 1 never follows a task that has run.
C18_ExitOneOnFatalError ==
  /\ exitCode = 1 => ~SomeTaskRan
  /\ mpc = "exit" =>
       ((\/ cdks = <<>> \/ fids = <<>>
         \/ mode = "resume" /\ (~dirOk \/ JsonFiles(files) = <<>>)
         \/ ReplayUnreadable)
        => exitCode = 1)

\* C18 (amended): the process exits with code 1 exactly when the code or
\* account list is empty or, in resumption mode, the failure directory cannot
\* be listed or holds no .json file, always before any task has run. A
\* failure file that cannot be read or parsed, or that holds no task, is
\* replayed as an empty list: no task runs and the exit code is 0.
C18_ExitOneOnlyBeforeAnyTask ==
  /\ exitCode = 1 => (~SomeTaskRan /\ spc = "idle" /\ mpc = "exit")
  /\ mpc = "exit" =>
       (exitCode = 1 <=>
          (\/ cdks = <<>> \/ fids = <<>>
           \/ mode = "resume" /\ (~dirOk \/ JsonFiles(files) = <<>>)))
  /\ (mpc = "exit" /\ (ReplayUnreadable \/ (mode = "resume" /\ replayDay \in Days
                                           /\ original = <<>>)))
       => (exitCode = 0 /\ ~SomeTaskRan /\ results = <<>>)

C18_Witness ==
  /\ mpc = "exit" /\ exitCode = 1
  /\ mode = "resume" /\ cdks # <<>> /\ fids # <<>>
  /\ dirOk /\ files = <<ReadmeName>>
  /\ ~SomeTaskRan

\* C19: after every run of the sequential program the final report is on the
\* console whatever the verbosity: the six figures (total, success,
\* already-claimed, timeout, other failures, success rate) and one line for
\* every task that succeeded or failed, with its identity and message.
C19_ReportAlwaysEmitted ==
  (mpc = "exit" /\ exitCode = 0 /\ mode \in {"seq", "resume"}) =>
    /\ {"total", "success", "alreadyClaimed", "timeout", "failure", "rate"}
         \subseteq {report[k].kind : k \in 1..Len(report)}
    /\ \A j \in 1..Len(results) :
         \E k \in 1..Len(report) :
           /\ report[k].kind = (IF results[j].success THEN "succeeded" ELSE "failed")
           /\ report[k].val = <<results[j].fid, results[j].cdk>> \o results[j].message

\* ------------------------------- the batched scheduler over the failure store
\* The tasks of a batch are started together (Promise.allSettled over
\* batch.map(processSingleCode)) and each runs the workflow that ends, when
\* its retries are exhausted, with append(task) on today's failure file.
StoreBatchInit ==
  /\ cdks = <<>> /\ fids = <<>> /\ gpc = "idle"
  /\ MainIdle /\ CallIdle
  /\ maxRetries = MaxRequestRetries
  /\ idx = 1 /\ results = <<>> /\ stats = ZeroStats
  /\ mode = "batchStore"
  /\ tasks \in RunTaskLists
  /\ wf = [i \in 1..Len(tasks) |-> IdleWf]
  /\ batchSize \in 1..MaxBatchSize
  /\ conf = LoadedConfig(MaxRequestRetries, batchSize)
  /\ today = 2 /\ replayDay = 0 /\ original = <<>>
  /\ store = [d \in Days |-> MissingFile]
  /\ spc = "next"

StoreBatchNext ==
  \/ \E i \in DOMAIN wf :
       \/ ResolveAccount(i)
       \/ AcquireCaptcha(i)
       \/ Submit(i)
       \/ SaveRead(i)
       \/ SaveWrite(i)
  \/ BatchStart \/ BatchSettle \/ BatchDelay

SpecBatchStore == StoreBatchInit /\ [][StoreBatchNext]_vars

NoValue == [Resp(-1, -1, <<>>, <<>>) EXCEPT !.k = "none"]
LoopWait(ms) == [ms |-> ms, by |-> "loop"]
InterceptorWait(ms) == [ms |-> ms, by |-> "interceptor"]

\* the retry-after header of a 429 answer: absent (<<>>) or a number of seconds
RetryAfterHeaders == {<<>>, <<2>>}

\* the delay the interceptor sleeps before it sends the request again
TooManyDelay(header) == IF header # <<>> THEN header[1] * 1000 ELSE BASE_DELAY

\* mutant: a non-timeout Axios error is thrown on the first attempt
AfterErrorNoRetry(error, attempt, maxAttempts) ==
  IF error.isAxios /\ error.ecode = "ECONNABORTED" THEN "sleep" ELSE "throw"

\* the catch block of the loop: sleep and go on, or throw the error
AfterError(error, attempt, maxAttempts) ==
  IF error.isAxios
  THEN (IF error.ecode = "ECONNABORTED" THEN "sleep"
        ELSE IF attempt = maxAttempts - 1 THEN "throw"
        ELSE "sleep")
  ELSE "throw"

RequestInit ==
  /\ GenIdle /\ MainIdle /\ RunIdle
  /\ call \in {[maxAttempts |-> n] : n \in 0..MaxRequestRetries}
  /\ out = [attempt |-> 0, sent |-> 0, tooMany |-> 0, waits |-> <<>>, errors |-> <<>>,
            value |-> NoValue]
  /\ cpc = "request"

\* the request of this attempt is answered
ReqAnswered ==
  /\ cpc = "request" /\ out.attempt < call.maxAttempts
  /\ \E resp \in GiftResponses :
       out' = [out EXCEPT !.sent = @ + 1, !.value = resp]
  /\ cpc' = "returned"
  /\ UNCHANGED <<call, genVars, mainVars, runVars>>

\* the request is answered with HTTP 429: the interceptor sleeps and sends
\* the same request again, inside the same attempt
ReqTooMany ==
  /\ cpc = "request" /\ out.attempt < call.maxAttempts
  /\ out.tooMany < Max429
  /\ \E header \in RetryAfterHeaders :
       out' = [out EXCEPT !.sent = @ + 1, !.tooMany = @ + 1,
                          !.waits = Append(@, InterceptorWait(TooManyDelay(header)))]
  /\ UNCHANGED <<call, cpc, genVars, mainVars, runVars>>

\* the request fails with an error, which the loop catches
ReqFails ==
  /\ cpc = "request" /\ out.attempt < call.maxAttempts
  /\ \E error \in Errors :
       IF AfterError(error, out.attempt, call.maxAttempts) = "throw"
       THEN /\ out' = [out EXCEPT !.sent = @ + 1, !.errors = Append(@, error),
                                  !.value = error]
            /\ cpc' = "thrown"
       ELSE /\ out' = [out EXCEPT !.sent = @ + 1, !.errors = Append(@, error),
                                  !.waits = Append(@, LoopWait(BASE_DELAY * (out.attempt + 1))),
                                  !.attempt = @ + 1]
            /\ cpc' = "request"
  /\ UNCHANGED <<call, genVars, mainVars, runVars>>

\* the loop is over: the generic error is thrown
ReqGivesUp ==
  /\ cpc = "request" /\ out.attempt >= call.maxAttempts
  /\ out' = [out EXCEPT !.value = StillFailingError(call.maxAttempts)]
  /\ cpc' = "thrown"
  /\ UNCHANGED <<call, genVars, mainVars, runVars>>

RequestNext == ReqAnswered \/ ReqTooMany \/ ReqFails \/ ReqGivesUp

SpecRequest == RequestInit /\ [][RequestNext]_vars

\* C21: one call of requestWithRetry sends at most maxRetries network
\* requests before it returns or throws, whatever the server does, repeated
\* timeouts and repeated HTTP 429 answers included.
C21_RequestsBounded == out.sent <= call.maxAttempts

\* ------------------------------------------- remove(file, task) on its own
\* The file is missing, unparsable or a list of up to MaxFileTasks entries
\* over two accounts and two codes; the task is any of the four pairs.
RemoveInit ==
  /\ GenIdle /\ MainIdle /\ RunIdle
  /\ \E task \in [fid : FidSet, cdk : CdkSet] :
       \E f \in {MissingFile, CorruptFile}
                \cup {OkFile(ts) : ts \in SeqsUpTo([fid : FidSet, cdk : CdkSet], MaxFileTasks)} :
         call = [file |-> f, task |-> task]
  /\ out = MissingFile
  /\ cpc = "call"

CallRemove ==
  /\ cpc = "call"
  /\ out' = removeSuccessfulTask(call.file, call.task)
  /\ cpc' = "returned"
  /\ UNCHANGED <<call, genVars, mainVars, runVars>>

RemoveNext == CallRemove

SpecRemove == RemoveInit /\ [][RemoveNext]_vars

\* C22: remove(file, task) deletes exactly the entries whose account and code
\* are both the task's and keeps every other entry in its order; the file is
\* deleted if and only if no entry remains; a missing or corrupt file is left
\* as it is.
C22_RemoveExactMatches ==
  cpc = "returned" =>
    LET before == call.file.tasks
        others == {k \in 1..Len(before) :
                     before[k].fid # call.task.fid \/ before[k].cdk # call.task.cdk}
        \* the k-th entry that does not match, in the original order
        nth[k \in 0..Len(before)] ==
          IF k = 0 THEN 0
          ELSE CHOOSE m \in others : m > nth[k - 1] /\ \A n \in others : n > nth[k - 1] => m <= n
    IN IF call.file.st # "ok"
       THEN out = call.file
       ELSE /\ Len(out.tasks) = Cardinality(others)
            /\ \A k \in 1..Cardinality(others) : out.tasks[k] = before[nth[k]]
            /\ (out.st = "missing" <=> others = {})
            /\ (out.st # "missing" => out.st = "ok")

C22_Witness ==
  /\ cpc = "returned"
  /\ Len(call.file.tasks) = 2
  /\ call.file.tasks[1].fid = call.task.fid /\ call.file.tasks[1].cdk # call.task.cdk
  /\ call.file.tasks[2] = call.task
  /\ out = OkFile(<<call.file.tasks[1]>>)

\* ------------------------------------------ a replay with a failing store
\* A replay of an earlier day's file of one or two tasks, in which the file
\* system may fail under the failure store: the
\* rewrite of append(task) fails (logged and swallowed inside the store), or
\* removeSuccessfulTask fails, either swallowed inside the store or thrown
\* to the loop of processFailedTasks, whose catch block takes it.
IoError == Err(FALSE, TRUE, "EACCES", <<"EACCES: permission denied">>)
ProcessingFailedPrefix == <<"chuli shibai: ">>

\* mutant: the exception leaves the loop
AfterCaughtAborts(i, n) == "finished"

\* the loop position after the catch block: the next task, if any
AfterCaught(i, n) == IF i < n THEN "next" ELSE "finished"

IoInit ==
  /\ cdks = <<"c1">> /\ fids = <<"f1">> /\ gpc = "idle"
  /\ CallIdle
  /\ maxRetries = MaxRequestRetries
  /\ conf = LoadedConfig(MaxRequestRetries, 1)
  /\ idx = 1 /\ results = <<>> /\ stats = ZeroStats
  /\ ResumeInit
  /\ replayDay # today
  /\ original \in {<<[fid |-> "f1", cdk |-> "c1"]>>,
                   <<[fid |-> "f1", cdk |-> "c1"], [fid |-> "f1", cdk |-> "c2"]>>}
  /\ dirOk = TRUE /\ files = <<DayFile(replayDay)>> /\ filePath = DayFile(replayDay)
  /\ exitCode = -1 /\ mpc = "run" /\ devMode = FALSE /\ report = <<>>

\* append(task): the rewrite fails; the error is logged and swallowed
SaveWriteFails(i) ==
  /\ wf[i].pc = "saveWrite"
  /\ SetWf(i, [wf[i] EXCEPT !.pc = "done", !.buf = <<>>])
  /\ UNCHANGED <<genVars, mainVars, callVars, cfgVars, spc, idx, results, stats, store>>

\* replay: removeSuccessfulTask fails inside the store and swallows the error
RemoveFailsSwallowed ==
  /\ mode = "resume" /\ spc = "await" /\ wf[idx].pc = "done"
  /\ wf[idx].result.success
  /\ stats' = Counted(stats, BucketSequential(wf[idx].result))
  /\ results' = Append(results, wf[idx].result)
  /\ idx' = idx + 1
  /\ spc' = IF idx < Len(tasks) THEN "next" ELSE "finished"
  /\ SetWf(idx, SettledWf)
  /\ UNCHANGED <<genVars, mainVars, callVars, cfgVars, store>>

\* replay: removeSuccessfulTask throws after the result was counted; the
\* catch block pushes a failed result and counts a failure
RemoveThrows ==
  /\ mode = "resume" /\ spc = "await" /\ wf[idx].pc = "done"
  /\ wf[idx].result.success
  /\ stats' = Counted(Counted(stats, BucketSequential(wf[idx].result)), "failure")
  /\ results' = Append(results,
                       FailedResult(idx, ProcessingFailedPrefix \o CaughtMessage(IoError)))
  /\ idx' = idx + 1
  /\ spc' = AfterCaught(idx, Len(tasks))
  /\ SetWf(idx, SettledWf)
  /\ UNCHANGED <<genVars, mainVars, callVars, cfgVars, store>>

IoNext ==
  \/ \E i \in DOMAIN wf :
       \/ ResolveAccount(i)
       \/ AcquireCaptcha(i)
       \/ Submit(i)
       \/ SaveRead(i)
       \/ SaveWrite(i)
       \/ SaveWriteFails(i)
  \/ TaskStart \/ ResumeRead \/ ResumeAccount
  \/ RemoveFailsSwallowed \/ RemoveThrows
  \/ MainExit

SpecIo == IoInit /\ [][IoNext]_vars

\* C23: an I/O error of the failure store, while a task is persisted or
\* removed, never aborts the run: the run goes on to the next task, every
\* task gets its result, and the process exits with code 0.
C23_StoreErrorsContained ==
  /\ mpc # "exit" => ENABLED IoNext
  /\ exitCode \in {-1, 0}
  /\ spc = "finished" =>
       /\ Len(results) = Len(tasks)
       /\ \A j \in 1..Len(tasks) :
            results[j].fid = tasks[j].fid /\ results[j].cdk = tasks[j].cdk
  /\ \A j \in 1..Len(results) :
       Includes(results[j].message, ProcessingFailedPrefix) => idx > j

C23_Witness ==
  /\ mpc = "exit" /\ exitCode = 0
  /\ Len(tasks) = 2 /\ Len(results) = 2
  /\ Includes(results[1].message, ProcessingFailedPrefix)
  /\ results[2].success
  /\ store[replayDay].tasks = original

\* the sleeps of the loop of requestWithRetry, those of the interceptor apart
LoopWaits == SelectSeq(out.waits, LAMBDA w : w.by = "loop")

\* C24: in requestWithRetry the wait after the k-th failed attempt lasts
\* 1000 * k ms, and every wait is followed by a further attempt: the call
\* does not wait after its final attempt.
C24_WaitThenRetry ==
  /\ \A k \in 1..Len(LoopWaits) : LoopWaits[k].ms = 1000 * k
  /\ Len(LoopWaits) <= Len(out.errors)
  /\ cpc = "thrown" => (Len(LoopWaits) < Len(out.errors) \/ out.errors = <<>>)
  /\ cpc = "request" => Len(LoopWaits) = out.attempt

\* C25: requestWithRetry rethrows a non-Axios error at once, with no further
\* attempt; it retries after a non-timeout Axios error and rethrows it
\* unchanged on the last attempt; when every attempt timed out it throws,
\* after the loop, the generic error "still failing after N retries" and not
\* the Axios timeout error. Without 429 answers the outcome is the one of
\* the loop taken as a whole.
C25_ErrorOutcomes ==
  LET n == Len(out.errors)
      IsTimeout(e) == e.isAxios /\ e.ecode = "ECONNABORTED"
  IN /\ \A k \in 1..n :
          LET e == out.errors[k]
          IN /\ ~e.isAxios => (k = n /\ cpc = "thrown" /\ out.value = e)
             /\ (e.isAxios /\ ~IsTimeout(e)) =>
                  IF k = call.maxAttempts
                  THEN k = n /\ cpc = "thrown" /\ out.value = e
                  ELSE out.attempt >= k
     /\ (cpc = "thrown" /\ \A k \in 1..n : IsTimeout(out.errors[k])) =>
          /\ n = call.maxAttempts
          /\ out.value = StillFailingError(call.maxAttempts)
          /\ ~out.value.isAxios /\ out.value # AxiosTimeout
     /\ (cpc \in {"returned", "thrown"} /\ out.tooMany = 0) =>
          LET bs == [k \in 1..call.maxAttempts |->
                       IF k <= n THEN out.errors[k]
                       ELSE IF cpc = "returned" THEN out.value ELSE out.errors[n]]
              r == requestWithRetry(bs, call.maxAttempts)
          IN /\ r.kind = (IF cpc = "returned" THEN "return" ELSE "throw")
             /\ r.value = out.value
             /\ r.sent = out.sent
             /\ r.waits = [k \in 1..Len(out.waits) |-> out.waits[k].ms]

C25_Witness ==
  /\ cpc = "thrown" /\ call.maxAttempts = 2
  /\ out.errors = <<AxiosTimeout, AxiosTimeout>>
  /\ out.sent = 2
  /\ out.value = StillFailingError(2)

\* C26: in batched mode the batchDelay wait is made exactly once between two
\* consecutive batches, after the earlier one has settled; never before the
\* first batch and never after the last.
C26_DelayBetweenBatches ==
  [][ /\ (spc = "await" /\ spc' # "await") =>
           /\ \A i \in BatchOf(idx) : wf[i].pc = "done"
           /\ spc' = IF idx' <= Len(tasks) THEN "delay" ELSE "finished"
      /\ spc = "delay" =>
           /\ idx \in 2..Len(tasks)
           /\ \A i \in DOMAIN wf : wf[i].pc = (IF i < idx THEN "settled" ELSE "idle")
           /\ spc' = "next" /\ idx' = idx /\ wf' = wf /\ results' = results
      /\ spc' = "next" => spc = "delay"
      /\ (spc = "next" /\ idx = 1) => Len(results) = 0 /\ spc' = "await"
    ]_vars

C26_Witness ==
  /\ mode = "batch" /\ spc = "delay"
  /\ batchSize = 1 /\ Len(tasks) = 3 /\ idx = 3 /\ Len(results) = 2

\* ---------------------------------------------------------------------------
\* Business error 40004 in the summary counts

\* the results of the run whose message carries the mapped text of 40004
ServerTimeoutResults ==
  {j \in DOMAIN results : ~results[j].success /\ Includes(results[j].message, errorMap(40004))}

\* the failed results whose message carries the literal marker
LiteralTimeoutResults ==
  {j \in DOMAIN results : ~results[j].success /\ Includes(results[j].message, TimeoutMarker)}

\* the failed results whose message carries the literal marker or the
\* translated word
EitherTimeoutResults ==
  {j \in DOMAIN results :
     /\ ~results[j].success
     /\ Includes(results[j].message, TimeoutMarker) \/ Includes(results[j].message, ChaoshiMarker)}

FailedResults == {j \in DOMAIN results : ~results[j].success}

\* C27 as stated: in both modes only the literal marker counts as a timeout,
\* so a task that ends with business error 40004 is counted under other
\* failure, and both modes put every message in the same bucket
C27_ServerTimeoutCountedAsFailure ==
  /\ stats.timeout = Cardinality(LiteralTimeoutResults)
  /\ stats.failure = Cardinality(FailedResults \ LiteralTimeoutResults)
  /\ stats.failure >= Cardinality(ServerTimeoutResults)

\* C27 amended: the batched run counts a failed result as timeout only when
\* its message has the literal marker, so an ending with 40004 is counted as
\* other failure there; the sequential run and the replay also match the
\* translated word, so an ending with 40004 is counted as timeout there
C27_ServerTimeoutBucketByMode ==
  /\ mode = "batch" =>
        /\ stats.timeout = Cardinality(LiteralTimeoutResults)
        /\ stats.failure = Cardinality(FailedResults \ LiteralTimeoutResults)
        /\ stats.failure >= Cardinality(ServerTimeoutResults)
  /\ mode \in {"seq", "resume"} =>
        /\ stats.timeout = Cardinality(EitherTimeoutResults)
        /\ stats.failure = Cardinality(FailedResults \ EitherTimeoutResults)
        /\ stats.timeout >= Cardinality(ServerTimeoutResults)

\* a sequential run has ended with a task answered 40004, counted as timeout
C27_Witness ==
  /\ mode = "seq" /\ spc = "finished"
  /\ ServerTimeoutResults # {}
  /\ LiteralTimeoutResults = {}
  /\ stats.timeout = Cardinality(ServerTimeoutResults)
  /\ stats.failure = 0

\* ---------------------------------------------------------------------------
\* Captcha solutions and redeem requests

\* C28 as stated: every redeem request of a task is preceded by a captcha
\* fetch made after the task's previous redeem request, so at most one redeem
\* request is sent with one captcha solution, request retries included
C28_FreshCaptchaPerRedeem ==
  \A i \in DOMAIN wf : wf[i].redeems <= 1

\* ---------------------------------------------------------------------------
\* Batched run: the order of the results

\* the tasks of the batch that ran last, and whether one of them settled
\* after a task that comes later in the list
LastBatch == {i \in DOMAIN wf : wf[i].order > 0}
SettledOutOfOrder ==
  \E i, j \in LastBatch : i < j /\ wf[i].order > wf[j].order

\* C29: in the batched run, whatever the order in which the tasks of a batch
\* settle, the results pushed so far are those of the first tasks of the
\* list, one per position and with the ids of the task at that position,
\* and at the end of the run there is one for every task
C29_ResultsInTaskOrder ==
  /\ Len(results) <= Len(tasks)
  /\ \A i \in DOMAIN results :
       [fid |-> results[i].fid, cdk |-> results[i].cdk] = tasks[i]
  /\ spc = "finished" => DOMAIN results = DOMAIN tasks
  /\ \A i \in LastBatch :
       /\ wf[i].order <= Cardinality(LastBatch)
       /\ \A j \in LastBatch : wf[i].order = wf[j].order => i = j

\* a finished run whose last batch settled its second task first: the
\* results are in the order of the list all the same
C29_Witness ==
  /\ spc = "finished" /\ batchSize = 2 /\ Len(tasks) = 2
  /\ tasks[1] # tasks[2]
  /\ wf[1].order = 2 /\ wf[2].order = 1
  /\ SettledOutOfOrder
  /\ results[1].cdk = tasks[1].cdk /\ results[2].cdk = tasks[2].cdk
  /\ results[1].success # results[2].success

\* ---------------------------------------------------------------------------
\* The counts and the results

\* C30 as stated: after each task is accounted for, the four counts add up
\* to the number of results and every result is counted once, on the side
\* of its success flag; also when the removal of a succeeded task throws
C30_CountsMatchResults ==
  /\ stats.success + stats.alreadyClaimed + stats.timeout + stats.failure = Len(results)
  /\ stats.success + stats.alreadyClaimed
       = Cardinality({j \in DOMAIN results : results[j].success})
  /\ stats.timeout + stats.failure
       = Cardinality({j \in DOMAIN results : ~results[j].success})

\* ---------------------------------------------------------------------------
\* The label of the message and the bucket

\* nicknames and codes that hold the text of a marker, next to plain ones
LabelNicknames == {<<"Alice">>, <<"TIMEOUT">>, <<"yilingguo">>, <<"chaoshi">>}
LabelCodes == {"c1", "TIMEOUT", "yilingguo"}

\* processSingleCode once the account is resolved: the result of
\* processGiftCode with the labelled message
processSingleCode(info, fid, cdk, bs, maxAttempts) ==
  Labelled(processGiftCode(fid, cdk, bs, bs, maxAttempts).result, info)

\* one task with a resolved account, one answer or error of the server, under
\* the counting of the batched or of the sequential program
LabelInit ==
  /\ GenIdle /\ MainIdle /\ RunIdle
  /\ \E n \in LabelNicknames, c \in LabelCodes, sequential \in BOOLEAN :
       \E b \in Behaviours(GiftResponses, Errors, 1) :
         call = [nickname |-> n, cdk |-> c, bs |-> b, sequential |-> sequential]
  /\ out = NoOutcome
  /\ cpc = "call"

\* the task is processed and its result is put in a bucket; the bucket the
\* result of processGiftCode has without the label is kept beside it
CallProcessSingleCode ==
  /\ cpc = "call"
  /\ LET info == [kid |-> "245", nickname |-> call.nickname]
         raw == processGiftCode("f1", call.cdk, call.bs, call.bs, 1).result
         result == processSingleCode(info, "f1", call.cdk, call.bs, 1)
     IN out' = [result |-> result,
                answer |-> Answered(call.bs, call.bs, 1),
                bucket |-> IF call.sequential THEN BucketSequential(result)
                           ELSE BucketBatched(result),
                unlabelled |-> IF call.sequential THEN BucketSequential(raw)
                               ELSE BucketBatched(raw)]
  /\ cpc' = "returned"
  /\ UNCHANGED <<call, genVars, mainVars, runVars>>

LabelNext == CallProcessSingleCode

SpecLabel == LabelInit /\ [][LabelNext]_vars

\* C31 as stated: the bucket depends on the outcome of the server only:
\* alreadyClaimed only after err_code 40008, and the bucket is the one the
\* message of the workflow gives, whatever the nickname and the code
C31_BucketIgnoresLabel ==
  cpc = "returned" =>
    /\ out.bucket = "alreadyClaimed" => out.answer.err_code = 40008
    /\ out.bucket = out.unlabelled

\* ---------------------------------------------------------------------------
\* The smallest retry budget the configuration accepts

\* C32 as stated: for every maxRetries the schema accepts (0 included) a
\* call of requestWithRetry has sent at least one request when it throws
C32_AtLeastOneRequest ==
  cpc = "thrown" => out.sent >= 1

\* ---------------------------------------------------------------------------
\* An input object that has a field named sign

\* C33 as stated: for every input object, one with a key named sign
\* included, the object returned has every field of the input with its
\* value and under sign the digest of the canonical text followed by the salt
C33_SignIsDigest ==
  cpc = "returned" =>
    /\ out.a.sign = MD5(JoinPairs(SortedKeys(call.a), call.a) \o call.signSalt)
    /\ \A f \in Range(call.a) :
         f.key # SignKey => f \in Range(out.a.fields)

\* ---------------------------------------------------------------------------
\* The replayed file during a replay

\* the tasks of the replayed list started so far that are the task t
StartedReplays(t) == {j \in 1..Min(idx, Len(tasks)) : tasks[j] = t}

\* C34 as stated: a replay never adds to the replayed file: no record is in
\* it more often than at the start, also when it is today's file and a
\* replayed task exhausts its retries again
C34_ReplayNeverAdds ==
  mode = "resume" =>
    \A t \in ReplayTaskSet :
      CountIn(store[replayDay].tasks, t) <= CountIn(original, t)

\* C34 amended: a replay of an earlier day's file never adds to it: no
\* record is in it more often than at the start. A replay of today's file
\* adds to it: every replayed task that exhausts its retries is appended to
\* it once more, so a record is in it at most as often as at the start plus
\* the number of its replays started so far; the file never holds a record
\* that was not in it at the start.
C34_ReplayAddsOnlyToTodaysFile ==
  mode = "resume" =>
    /\ Range(store[replayDay].tasks) \subseteq Range(original)
    /\ \A t \in ReplayTaskSet :
         CountIn(store[replayDay].tasks, t)
           <= CountIn(original, t)
              + (IF replayDay = today THEN Cardinality(StartedReplays(t)) ELSE 0)

\* a replay of today's file has ended; its only task exhausted its retries
\* again and is in the file twice
C34_Witness ==
  /\ mode = "resume" /\ replayDay = today /\ spc = "finished"
  /\ Len(original) = 1 /\ Len(results) = 1 /\ ~results[1].success
  /\ Includes(results[1].message, ExhaustedSuffix)
  /\ store[replayDay].tasks = <<original[1], original[1]>>

====
